---- MODULE Spec2Model ----
(***************************************************************************)
(* The thread scheduler of pintos/threads/thread.c together with the timer *)
(* interrupt path of pintos/devices/timer.c, on one processor.             *)
(*                                                                         *)
(* A thread is identified by the page that holds its struct thread.  Code  *)
(* that runs with interrupts masked cannot be interleaved with anything,   *)
(* so every such section is one action; code that runs with interrupts     *)
(* enabled is cut wherever it reads or writes kernel state, and the timer  *)
(* interrupt can strike between any two of those actions.                  *)
(***************************************************************************)
EXTENDS Integers, Sequences, FiniteSets, TLC

\* ------------------------------------------------------------ bounds
MaxCreate == 1     \* threads created after the idle thread
MaxRR == 3         \* threads of the round-robin scenario
MaxTick == 4       \* timer interrupts
MaxSpawn == 3      \* threads created after the idle thread in the creation scenario
MaxPri == 1        \* threads created after the idle thread in the priority scenario
PTick == 1         \* timer interrupts in the priority scenario
MaxSleep == 2      \* largest argument of timer_sleep()

\* ------------------------------------------------- program constants
TIME_SLICE == 4
NULL == 0
initial_thread == 1
TID_ERROR == -1
PRI_MIN == 0
PRI_DEFAULT == 31
PRI_MAX == 63

\* The pages palloc_get_page() can hand out: main's, the idle thread's, and
\* one for every thread created later.
Pages == 1..(2 + IF MaxCreate > MaxRR THEN MaxCreate ELSE MaxRR)
SleepArgs == 0..MaxSleep
PriArgs == {PRI_MIN, PRI_MAX}

VARIABLES
    status,            \* struct thread.status, "NONE" before palloc, "FREED" after palloc_free_page
    tid,               \* struct thread.tid
    priority,          \* struct thread.priority
    pml4,              \* struct thread.pml4: NULL for a kernel thread
    wakeup_tick,       \* struct thread.wakeup_tick
    tf_eflags,         \* the interrupt flag of struct thread.tf
    old_level,         \* the old_level local of the call a thread is suspended in
    ready_list, sleep_list, destruction_req,
    idle_thread,
    cur,               \* running_thread(): the thread whose stack the processor is on
    next_tid,
    tid_lock,          \* [value, holder, waiters]
    idle_started,      \* [value, waiters]
    waiters,           \* threads parked by a collaborator that called thread_block()
    ticks,             \* timer.c
    thread_ticks, idle_ticks, kernel_ticks, user_ticks,
    intr_level,        \* the processor's interrupt flag
    in_intr,           \* intr_context()
    yield_on_return,
    panic,             \* an ASSERT failed: the kernel has halted
    pc,                \* where each thread is in its own code
    preempted,         \* the thread is suspended in the thread_yield() of an interrupt return
    sl_start, sl_ticks,\* timer_sleep's start and ticks; start is also too_many_loops' start
    newt,              \* thread_create's t
    woken,             \* history: the <<thread, deadline>> pairs the thread_wakeup() of the
                       \* interrupt being handled has moved, in order
    delivered,         \* history: the deadline of the last thread moved by an earlier interrupt
    returned,          \* history: what the last thread_create() that returned has returned
    ticks_level        \* history: the interrupt level at the last read or write of ticks

InList(l, e) == \E i \in 1..Len(l) : l[i] = e

kvars == <<status, tid, priority, pml4, wakeup_tick, tf_eflags, old_level, ready_list, sleep_list,
           destruction_req, idle_thread, cur, next_tid, tid_lock, idle_started,
           waiters, ticks, thread_ticks, idle_ticks, kernel_ticks, user_ticks, intr_level,
           in_intr, yield_on_return, panic>>
lvars == <<pc, preempted, sl_start, sl_ticks, newt>>
hvars == <<woken, delivered, returned, ticks_level>>
vars == <<kvars, lvars, hvars>>

\* The kernel's state as one value, so that the functions below compose as
\* the C functions call one another.
K == [status |-> status, tid |-> tid, priority |-> priority, pml4 |-> pml4,
      wakeup_tick |-> wakeup_tick,
      tf_eflags |-> tf_eflags, old_level |-> old_level,
      ready_list |-> ready_list, sleep_list |-> sleep_list,
      destruction_req |-> destruction_req, idle_thread |-> idle_thread,
      cur |-> cur, next_tid |-> next_tid, tid_lock |-> tid_lock,
      idle_started |-> idle_started, waiters |-> waiters, ticks |-> ticks,
      thread_ticks |-> thread_ticks, idle_ticks |-> idle_ticks,
      kernel_ticks |-> kernel_ticks, user_ticks |-> user_ticks,
      intr_level |-> intr_level,
      in_intr |-> in_intr, yield_on_return |-> yield_on_return, panic |-> panic]

\* The next state is s.  A thread's wakeup_tick is read only while the thread is
\* in sleep_list and thread_sleep() writes it before inserting, so the stale
\* value a thread keeps after it has been woken is not part of the state.
Commit(s) ==
    /\ status' = s.status
    /\ tid' = s.tid
    /\ priority' = s.priority
    /\ pml4' = s.pml4
    /\ wakeup_tick' = [t \in Pages |-> IF InList(s.sleep_list, t) THEN s.wakeup_tick[t] ELSE 0]
    /\ tf_eflags' = s.tf_eflags
    /\ old_level' = s.old_level
    /\ ready_list' = s.ready_list
    /\ sleep_list' = s.sleep_list
    /\ destruction_req' = s.destruction_req
    /\ idle_thread' = s.idle_thread
    /\ cur' = s.cur
    /\ next_tid' = s.next_tid
    /\ tid_lock' = s.tid_lock
    /\ idle_started' = s.idle_started
    /\ waiters' = s.waiters
    /\ ticks' = s.ticks
    /\ thread_ticks' = s.thread_ticks
    /\ idle_ticks' = s.idle_ticks
    /\ kernel_ticks' = s.kernel_ticks
    /\ user_ticks' = s.user_ticks
    /\ intr_level' = s.intr_level
    /\ in_intr' = s.in_intr
    /\ yield_on_return' = s.yield_on_return
    /\ panic' = s.panic

\* ------------------------------------------------------------ lists
Count(l, e) == Cardinality({i \in 1..Len(l) : l[i] = e})

list_empty(l) == l = <<>>
list_front(l) == Head(l)
list_pop_front(l) == Tail(l)
list_push_back(l, e) == Append(l, e)
list_insert(l, pos, e) == SubSeq(l, 1, pos - 1) \o <<e>> \o SubSeq(l, pos, Len(l))

\* wakeup_less() comparing with <= .
wakeup_less_eq(wt, a, b) == wt[a] <= wt[b]

\* wakeup_less() comparing with > .
wakeup_less_rev(wt, a, b) == wt[a] > wt[b]

\* wakeup_less(a, b): a's wakeup_tick is strictly less than b's.
wakeup_less(wt, a, b) == wt[a] < wt[b]

\* list_insert_ordered() that does not scan: the element goes to the tail.
list_insert_ordered_back(l, elem, wt) == list_insert(l, Len(l) + 1, elem)

\* list_insert_ordered: scan from the front, stop at the first element e with
\* less(elem, e), insert before it (at the tail when there is none).
list_insert_ordered(l, elem, wt) ==
    LET stops == {i \in 1..Len(l) : wakeup_less(wt, elem, l[i])}
        pos == IF stops = {} THEN Len(l) + 1
               ELSE CHOOSE i \in stops : \A j \in stops : i <= j
    IN list_insert(l, pos, elem)

\* ------------------------------------------------------------ asserts
PANIC(s) == [s EXCEPT !.panic = TRUE]
is_thread(s, t) == t # NULL /\ s.status[t] \notin {"NONE", "FREED"}

\* ASSERT (is_thread (t)); ASSERT (t->status == THREAD_RUNNING) of thread_current().
thread_current_ok(s) == is_thread(s, s.cur) /\ s.status[s.cur] = "RUNNING"

\* --------------------------------------------------------- thread.c
\* thread_unblock() that puts the thread at the front of ready_list.
thread_unblock_front(s, t) ==
    IF s.panic THEN s
    ELSE IF ~is_thread(s, t) THEN PANIC(s)
    ELSE LET old == s.intr_level
             s1 == [s EXCEPT !.intr_level = "OFF"]
         IN IF s1.status[t] # "BLOCKED" THEN PANIC(s1)
            ELSE [s1 EXCEPT !.ready_list = <<t>> \o @,
                            !.status[t] = "READY",
                            !.intr_level = old]

\* thread_unblock() that returns with interrupts disabled.
thread_unblock_intr_off(s, t) ==
    IF s.panic THEN s
    ELSE IF ~is_thread(s, t) THEN PANIC(s)
    ELSE LET s1 == [s EXCEPT !.intr_level = "OFF"]
         IN IF s1.status[t] # "BLOCKED" THEN PANIC(s1)
            ELSE [s1 EXCEPT !.ready_list = list_push_back(@, t),
                            !.status[t] = "READY"]

\* thread_unblock() without  ASSERT (t->status == THREAD_BLOCKED).
thread_unblock_unchecked(s, t) ==
    IF s.panic THEN s
    ELSE IF ~is_thread(s, t) THEN PANIC(s)
    ELSE [s EXCEPT !.ready_list = list_push_back(@, t),
                   !.status[t] = "READY"]

thread_unblock(s, t) ==
    IF s.panic THEN s
    ELSE IF ~is_thread(s, t) THEN PANIC(s)
    ELSE LET old == s.intr_level
             s1 == [s EXCEPT !.intr_level = "OFF"]
         IN IF s1.status[t] # "BLOCKED" THEN PANIC(s1)
            ELSE [s1 EXCEPT !.ready_list = list_push_back(@, t),
                            !.status[t] = "READY",
                            !.intr_level = old]

\* next_thread_to_run() returning the thread at the back of ready_list.
next_thread_to_run_back(s) ==
    IF list_empty(s.ready_list) THEN s.idle_thread ELSE s.ready_list[Len(s.ready_list)]

\* next_thread_to_run() that prefers a queued thread of the highest priority.
next_thread_to_run_priority(s) ==
    IF list_empty(s.ready_list) THEN s.idle_thread
    ELSE LET best == CHOOSE i \in 1..Len(s.ready_list) :
                        \A j \in 1..Len(s.ready_list) :
                           \/ s.priority[s.ready_list[j]] < s.priority[s.ready_list[i]]
                           \/ s.priority[s.ready_list[j]] = s.priority[s.ready_list[i]] /\ i <= j
         IN s.ready_list[best]

\* The thread next_thread_to_run() returns.
next_thread_to_run(s) ==
    IF list_empty(s.ready_list) THEN s.idle_thread ELSE list_front(s.ready_list)

\* next_thread_to_run() that returns the front without removing it.
next_thread_to_run_list_keep(s) == s.ready_list

\* The ready list next_thread_to_run() leaves.
next_thread_to_run_list(s) ==
    IF list_empty(s.ready_list) THEN s.ready_list ELSE list_pop_front(s.ready_list)

\* Saves the running thread's context (interrupt flag included) in its tf and
\* restores th's with do_iret.
thread_launch(s, th) ==
    IF s.intr_level # "OFF" THEN PANIC(s)
    ELSE [s EXCEPT !.tf_eflags[s.cur] = s.intr_level,
                   !.cur = th,
                   !.intr_level = s.tf_eflags[th]]

\* schedule() without the queuing of a dying thread on destruction_req.
schedule_no_destruction(s) ==
    IF s.panic THEN s
    ELSE LET curr == s.cur
             next == next_thread_to_run(s)
             s1 == [s EXCEPT !.ready_list = next_thread_to_run_list(s)]
         IN IF s1.intr_level # "OFF" \/ s1.status[curr] = "RUNNING" \/ ~is_thread(s1, next)
            THEN PANIC(s1)
            ELSE LET s2 == [s1 EXCEPT !.status[next] = "RUNNING", !.thread_ticks = 0]
                 IN IF curr # next THEN thread_launch(s2, next) ELSE s2

\* schedule() without  next->status = THREAD_RUNNING.
schedule_not_running(s) ==
    IF s.panic THEN s
    ELSE LET curr == s.cur
             next == next_thread_to_run(s)
             s1 == [s EXCEPT !.ready_list = next_thread_to_run_list(s)]
         IN IF s1.intr_level # "OFF" \/ s1.status[curr] = "RUNNING" \/ ~is_thread(s1, next)
            THEN PANIC(s1)
            ELSE LET s2 == [s1 EXCEPT !.thread_ticks = 0]
                     s3 == IF s2.status[curr] = "DYING" /\ curr # initial_thread
                           THEN [s2 EXCEPT !.destruction_req = list_push_back(@, curr)]
                           ELSE s2
                 IN IF curr # next THEN thread_launch(s3, next) ELSE s2

\* schedule() that queues the thread it switches from on destruction_req
\* whatever its status.
schedule_destroy_any(s) ==
    IF s.panic THEN s
    ELSE LET curr == s.cur
             next == next_thread_to_run(s)
             s1 == [s EXCEPT !.ready_list = next_thread_to_run_list(s)]
         IN IF s1.intr_level # "OFF" \/ s1.status[curr] = "RUNNING" \/ ~is_thread(s1, next)
            THEN PANIC(s1)
            ELSE LET s2 == [s1 EXCEPT !.status[next] = "RUNNING", !.thread_ticks = 0]
                     s3 == IF curr # initial_thread
                           THEN [s2 EXCEPT !.destruction_req = list_push_back(@, curr)]
                           ELSE s2
                 IN IF curr # next THEN thread_launch(s3, next) ELSE s2

\* schedule() without the  curr != initial_thread  test.
schedule_destroy_initial(s) ==
    IF s.panic THEN s
    ELSE LET curr == s.cur
             next == next_thread_to_run(s)
             s1 == [s EXCEPT !.ready_list = next_thread_to_run_list(s)]
         IN IF s1.intr_level # "OFF" \/ s1.status[curr] = "RUNNING" \/ ~is_thread(s1, next)
            THEN PANIC(s1)
            ELSE LET s2 == [s1 EXCEPT !.status[next] = "RUNNING", !.thread_ticks = 0]
                     s3 == IF s2.status[curr] = "DYING"
                           THEN [s2 EXCEPT !.destruction_req = list_push_back(@, curr)]
                           ELSE s2
                 IN IF curr # next THEN thread_launch(s3, next) ELSE s2

schedule(s) ==
    IF s.panic THEN s
    ELSE LET curr == s.cur
             next == next_thread_to_run(s)
             s1 == [s EXCEPT !.ready_list = next_thread_to_run_list(s)]
         IN IF s1.intr_level # "OFF" \/ s1.status[curr] = "RUNNING" \/ ~is_thread(s1, next)
            THEN PANIC(s1)
            ELSE LET s2 == [s1 EXCEPT !.status[next] = "RUNNING", !.thread_ticks = 0]
                     s3 == IF s2.status[curr] = "DYING" /\ curr # initial_thread
                           THEN [s2 EXCEPT !.destruction_req = list_push_back(@, curr)]
                           ELSE s2
                 IN IF curr # next THEN thread_launch(s3, next) ELSE s2

\* do_schedule() without the loop over destruction_req.
do_schedule_no_drain(s, st) ==
    IF s.panic THEN s
    ELSE IF s.intr_level # "OFF" \/ ~thread_current_ok(s) THEN PANIC(s)
    ELSE schedule([s EXCEPT !.status[s.cur] = st])

do_schedule(s, st) ==
    IF s.panic THEN s
    ELSE IF s.intr_level # "OFF" \/ ~thread_current_ok(s) THEN PANIC(s)
    ELSE LET s1 == [s EXCEPT !.status = [t \in Pages |->
                                 IF InList(s.destruction_req, t) THEN "FREED"
                                 ELSE s.status[t]],
                             !.destruction_req = <<>>]
         IN IF ~thread_current_ok(s1) THEN PANIC(s1)
            ELSE schedule([s1 EXCEPT !.status[s1.cur] = st])

\* thread_block() that goes through do_schedule().
thread_block_reap(s) ==
    IF s.panic THEN s
    ELSE IF s.in_intr \/ s.intr_level # "OFF" \/ ~thread_current_ok(s) THEN PANIC(s)
    ELSE do_schedule(s, "BLOCKED")

\* thread_block() that also leaves the thread on ready_list.
thread_block_queued(s) ==
    IF s.panic THEN s
    ELSE IF s.in_intr \/ s.intr_level # "OFF" \/ ~thread_current_ok(s) THEN PANIC(s)
    ELSE schedule([s EXCEPT !.status[s.cur] = "BLOCKED",
                            !.ready_list = list_push_back(@, s.cur)])

thread_block(s) ==
    IF s.panic THEN s
    ELSE IF s.in_intr \/ s.intr_level # "OFF" \/ ~thread_current_ok(s) THEN PANIC(s)
    ELSE schedule([s EXCEPT !.status[s.cur] = "BLOCKED"])

\* thread_yield() without the  curr != idle_thread  test.
thread_yield_any(s) ==
    IF s.panic THEN s
    ELSE IF ~thread_current_ok(s) \/ s.in_intr THEN PANIC(s)
    ELSE LET curr == s.cur
             s1 == [s EXCEPT !.old_level[curr] = s.intr_level, !.intr_level = "OFF"]
         IN do_schedule([s1 EXCEPT !.ready_list = list_push_back(@, curr)], "READY")

\* thread_yield() that puts the thread at the front of ready_list.
thread_yield_front(s) ==
    IF s.panic THEN s
    ELSE IF ~thread_current_ok(s) \/ s.in_intr THEN PANIC(s)
    ELSE LET curr == s.cur
             s1 == [s EXCEPT !.old_level[curr] = s.intr_level, !.intr_level = "OFF"]
             s2 == IF curr # s1.idle_thread
                   THEN [s1 EXCEPT !.ready_list = <<curr>> \o @]
                   ELSE s1
         IN do_schedule(s2, "READY")

\* thread_yield() that queues nobody.
thread_yield_unqueued(s) ==
    IF s.panic THEN s
    ELSE IF ~thread_current_ok(s) \/ s.in_intr THEN PANIC(s)
    ELSE LET curr == s.cur
             s1 == [s EXCEPT !.old_level[curr] = s.intr_level, !.intr_level = "OFF"]
         IN do_schedule(s1, "READY")

\* thread_yield() up to the switch; the intr_set_level (old_level) after it runs
\* when the thread is dispatched again.
thread_yield(s) ==
    IF s.panic THEN s
    ELSE IF ~thread_current_ok(s) \/ s.in_intr THEN PANIC(s)
    ELSE LET curr == s.cur
             s1 == [s EXCEPT !.old_level[curr] = s.intr_level, !.intr_level = "OFF"]
             s2 == IF curr # s1.idle_thread
                   THEN [s1 EXCEPT !.ready_list = list_push_back(@, curr)]
                   ELSE s1
         IN do_schedule(s2, "READY")

\* thread_exit() that leaves the thread on ready_list.
thread_exit_queued(s) ==
    IF s.panic THEN s
    ELSE IF s.in_intr THEN PANIC(s)
    ELSE do_schedule([s EXCEPT !.intr_level = "OFF",
                               !.ready_list = list_push_back(@, s.cur)], "DYING")

thread_exit(s) ==
    IF s.panic THEN s
    ELSE IF s.in_intr THEN PANIC(s)
    ELSE do_schedule([s EXCEPT !.intr_level = "OFF"], "DYING")

\* thread_sleep() that leaves through thread_yield() instead of thread_block().
thread_sleep_yield(s, tk) ==
    IF s.panic THEN s
    ELSE LET s1 == [s EXCEPT !.old_level[s.cur] = s.intr_level, !.intr_level = "OFF"]
         IN IF ~thread_current_ok(s1) THEN PANIC(s1)
            ELSE LET s2 == [s1 EXCEPT !.wakeup_tick[s1.cur] = tk]
                     s3 == [s2 EXCEPT !.sleep_list =
                                list_insert_ordered(@, s2.cur, s2.wakeup_tick)]
                 IN do_schedule([s3 EXCEPT !.ready_list = list_push_back(@, s3.cur)], "READY")

\* thread_sleep() up to the switch inside thread_block().
thread_sleep(s, tk) ==
    IF s.panic THEN s
    ELSE LET s1 == [s EXCEPT !.old_level[s.cur] = s.intr_level, !.intr_level = "OFF"]
         IN IF ~thread_current_ok(s1) THEN PANIC(s1)
            ELSE LET s2 == [s1 EXCEPT !.wakeup_tick[s1.cur] = tk]
                     s3 == [s2 EXCEPT !.sleep_list =
                                list_insert_ordered(@, s2.cur, s2.wakeup_tick)]
                 IN thread_block(s3)

\* The loop of thread_wakeup() with  wakeup_tick < ticks  as its test.
RECURSIVE thread_wakeup_loop_strict(_, _)
thread_wakeup_loop_strict(s, tk) ==
    IF s.panic \/ list_empty(s.sleep_list) THEN s
    ELSE LET t == list_front(s.sleep_list)
         IN IF s.wakeup_tick[t] < tk
            THEN thread_wakeup_loop_strict(
                     thread_unblock([s EXCEPT !.sleep_list = list_pop_front(@)], t), tk)
            ELSE s

\* The loop of thread_wakeup() without a test: it empties sleep_list.
RECURSIVE thread_wakeup_loop_all(_, _)
thread_wakeup_loop_all(s, tk) ==
    IF s.panic \/ list_empty(s.sleep_list) THEN s
    ELSE thread_wakeup_loop_all(
             thread_unblock([s EXCEPT !.sleep_list = list_pop_front(@)],
                            list_front(s.sleep_list)), tk)

\* The loop of thread_wakeup() as an if: it moves one thread at most.
thread_wakeup_loop_one(s, tk) ==
    IF s.panic \/ list_empty(s.sleep_list) THEN s
    ELSE LET t == list_front(s.sleep_list)
         IN IF s.wakeup_tick[t] <= tk
            THEN thread_unblock([s EXCEPT !.sleep_list = list_pop_front(@)], t)
            ELSE s

\* The while loop of thread_wakeup().
RECURSIVE thread_wakeup_loop(_, _)
thread_wakeup_loop(s, tk) ==
    IF s.panic \/ list_empty(s.sleep_list) THEN s
    ELSE LET t == list_front(s.sleep_list)
         IN IF s.wakeup_tick[t] <= tk
            THEN thread_wakeup_loop(
                     thread_unblock([s EXCEPT !.sleep_list = list_pop_front(@)], t), tk)
            ELSE s

\* thread_wakeup() that ends with intr_enable() instead of intr_set_level (old_level).
thread_wakeup_enable(s, tk) ==
    IF s.panic THEN s
    ELSE IF ~thread_current_ok(s) THEN PANIC(s)
    ELSE LET s1 == thread_wakeup_loop([s EXCEPT !.intr_level = "OFF"], tk)
         IN IF s1.panic THEN s1 ELSE [s1 EXCEPT !.intr_level = "ON"]

thread_wakeup(s, tk) ==
    IF s.panic THEN s
    ELSE IF ~thread_current_ok(s) THEN PANIC(s)
    ELSE LET old == s.intr_level
             s1 == thread_wakeup_loop([s EXCEPT !.intr_level = "OFF"], tk)
         IN IF s1.panic THEN s1 ELSE [s1 EXCEPT !.intr_level = old]

\* thread_tick() that has no statistics branch for user programs.
thread_tick_no_user(s) ==
    IF s.panic THEN s
    ELSE IF ~thread_current_ok(s) THEN PANIC(s)
    ELSE LET s1 == IF s.cur = s.idle_thread
                   THEN [s EXCEPT !.idle_ticks = @ + 1]
                   ELSE [s EXCEPT !.kernel_ticks = @ + 1]
             s2 == [s1 EXCEPT !.thread_ticks = @ + 1]
         IN IF s2.thread_ticks >= TIME_SLICE
            THEN (IF s2.in_intr THEN [s2 EXCEPT !.yield_on_return = TRUE] ELSE PANIC(s2))
            ELSE s2

\* thread_tick() that switches threads itself when the slice is used up.
thread_tick_dispatch(s) ==
    IF s.panic THEN s
    ELSE IF ~thread_current_ok(s) THEN PANIC(s)
    ELSE LET s1 == IF s.cur = s.idle_thread
                   THEN [s EXCEPT !.idle_ticks = @ + 1]
                   ELSE IF s.pml4[s.cur] # NULL
                   THEN [s EXCEPT !.user_ticks = @ + 1]
                   ELSE [s EXCEPT !.kernel_ticks = @ + 1]
             s2 == [s1 EXCEPT !.thread_ticks = @ + 1]
         IN IF s2.thread_ticks >= TIME_SLICE
            THEN do_schedule([s2 EXCEPT !.ready_list = list_push_back(@, s.cur)], "READY")
            ELSE s2

\* thread_tick() that never asks for a yield.
thread_tick_no_yield(s) ==
    IF s.panic THEN s
    ELSE IF ~thread_current_ok(s) THEN PANIC(s)
    ELSE LET s1 == IF s.cur = s.idle_thread
                   THEN [s EXCEPT !.idle_ticks = @ + 1]
                   ELSE IF s.pml4[s.cur] # NULL
                   THEN [s EXCEPT !.user_ticks = @ + 1]
                   ELSE [s EXCEPT !.kernel_ticks = @ + 1]
         IN [s1 EXCEPT !.thread_ticks = @ + 1]

\* thread_tick() that compares with  >  instead of  >= .
thread_tick_late(s) ==
    IF s.panic THEN s
    ELSE IF ~thread_current_ok(s) THEN PANIC(s)
    ELSE LET s1 == IF s.cur = s.idle_thread
                   THEN [s EXCEPT !.idle_ticks = @ + 1]
                   ELSE IF s.pml4[s.cur] # NULL
                   THEN [s EXCEPT !.user_ticks = @ + 1]
                   ELSE [s EXCEPT !.kernel_ticks = @ + 1]
             s2 == [s1 EXCEPT !.thread_ticks = @ + 1]
         IN IF s2.thread_ticks > TIME_SLICE
            THEN (IF s2.in_intr THEN [s2 EXCEPT !.yield_on_return = TRUE] ELSE PANIC(s2))
            ELSE s2

thread_tick(s) ==
    IF s.panic THEN s
    ELSE IF ~thread_current_ok(s) THEN PANIC(s)
    ELSE LET s1 == IF s.cur = s.idle_thread
                   THEN [s EXCEPT !.idle_ticks = @ + 1]
                   ELSE IF s.pml4[s.cur] # NULL
                   THEN [s EXCEPT !.user_ticks = @ + 1]
                   ELSE [s EXCEPT !.kernel_ticks = @ + 1]
             s2 == [s1 EXCEPT !.thread_ticks = @ + 1]
         IN IF s2.thread_ticks >= TIME_SLICE
            THEN (IF s2.in_intr THEN [s2 EXCEPT !.yield_on_return = TRUE] ELSE PANIC(s2))
            ELSE s2

\* ---------------------------------------------------------- timer.c
timer_interrupt(s) ==
    LET s1 == [s EXCEPT !.ticks = @ + 1]
        s2 == thread_tick(s1)
    IN thread_wakeup(s2, s2.ticks)

\* intr_set_level (old_level) at the end of a call that disabled interrupts; the
\* local old_level goes out of scope (its slot is put back to "ON").
RestoreLevel(s) == [s EXCEPT !.intr_level = s.old_level[s.cur], !.old_level[s.cur] = "ON"]

\* ------------------------------------------------ synch (semaphores)
\* One pass of sema_down()'s  while (sema->value == 0)  loop, entered with
\* interrupts off: park on the waiters list and block, or take the value and
\* restore the interrupt level saved at the call.
sema_down_loop(s, f) ==
    IF s.panic THEN s
    ELSE IF s[f].value = 0
    THEN thread_block([s EXCEPT ![f].waiters = list_push_back(@, s.cur)])
    ELSE RestoreLevel([s EXCEPT ![f].value = @ - 1])

sema_down(s, f) ==
    IF s.panic THEN s
    ELSE IF s.in_intr THEN PANIC(s)
    ELSE sema_down_loop([s EXCEPT !.old_level[s.cur] = s.intr_level,
                                  !.intr_level = "OFF"], f)

sema_up(s, f) ==
    IF s.panic THEN s
    ELSE LET old == s.intr_level
             s1 == [s EXCEPT !.intr_level = "OFF"]
             s2 == IF ~list_empty(s1[f].waiters)
                   THEN thread_unblock([s1 EXCEPT ![f].waiters = list_pop_front(@)],
                                       list_front(s1[f].waiters))
                   ELSE s1
         IN IF s2.panic THEN s2
            ELSE [s2 EXCEPT ![f].value = @ + 1, !.intr_level = old]

\* ------------------------------------------------------------- Init
\* The state thread_init() leaves: the boot code has become thread "main",
\* interrupts are still off, and main is about to call thread_start().
Init ==
    /\ status = [t \in Pages |-> IF t = initial_thread THEN "RUNNING" ELSE "NONE"]
    /\ tid = [t \in Pages |-> IF t = initial_thread THEN 1 ELSE 0]
    /\ priority = [t \in Pages |-> IF t = initial_thread THEN PRI_DEFAULT ELSE 0]
    /\ pml4 = [t \in Pages |-> NULL]
    /\ wakeup_tick = [t \in Pages |-> 0]
    /\ tf_eflags = [t \in Pages |-> "OFF"]
    /\ old_level = [t \in Pages |-> "ON"]
    /\ ready_list = <<>>
    /\ sleep_list = <<>>
    /\ destruction_req = <<>>
    /\ idle_thread = NULL
    /\ cur = initial_thread
    /\ next_tid = 2
    /\ tid_lock = [value |-> 1, holder |-> NULL, waiters |-> <<>>]
    /\ idle_started = [value |-> 0, waiters |-> <<>>]
    /\ waiters = {}
    /\ ticks = 0
    /\ thread_ticks = 0
    /\ idle_ticks = 0
    /\ kernel_ticks = 0
    /\ user_ticks = 0
    /\ intr_level = "OFF"
    /\ in_intr = FALSE
    /\ yield_on_return = FALSE
    /\ panic = FALSE
    /\ pc = [t \in Pages |-> IF t = initial_thread THEN "ts_create" ELSE "none"]
    /\ preempted = [t \in Pages |-> FALSE]
    /\ sl_start = [t \in Pages |-> 0]
    /\ sl_ticks = [t \in Pages |-> 0]
    /\ newt = [t \in Pages |-> NULL]
    /\ woken = <<>>
    /\ delivered = 0
    /\ returned = 0
    /\ ticks_level = "none"

\* Thread t is executing its own code (not an interrupt handler, and not about
\* to return from the interrupt that preempted it).
Executing(t) == cur = t /\ ~panic /\ ~in_intr /\ ~preempted[t]

\* ------------------------------------------------- thread_create()
FreshPages(s) == {p \in Pages : s.status[p] = "NONE"}

\* palloc_get_page() handing out page p, then init_thread(): a BLOCKED thread.
\* Its saved context enters kernel_thread() with interrupts enabled
\* (t->tf.eflags = FLAG_IF, set by thread_create() before it unblocks t).
init_thread(s, p, pri) ==
    IF ~(PRI_MIN <= pri /\ pri <= PRI_MAX) THEN PANIC(s)
    ELSE [s EXCEPT !.status[p] = "BLOCKED", !.priority[p] = pri, !.pml4[p] = NULL,
                   !.tf_eflags[p] = "ON"]

\* thread_set_priority (new_priority).
thread_set_priority(s, new_priority) == [s EXCEPT !.priority[s.cur] = new_priority]

\* lock_release (&tid_lock).
lock_release(s) == sema_up([s EXCEPT !.tid_lock.holder = NULL], "tid_lock")

\* allocate_tid() that releases tid_lock before it has stored next_tid.
allocate_tid_read_release(s, p) == lock_release([s EXCEPT !.tid[p] = s.next_tid])

\* allocate_tid() with tid_lock held, tid = next_tid++ : the load of next_tid.
\* The local tid is kept in the tid field of the thread being created, which
\* thread_create() sets to it (t->tid = allocate_tid()) and nothing else reads
\* before then.
allocate_tid_read(s, p) == [s EXCEPT !.tid[p] = s.next_tid]

\* tid = next_tid++ : the store of the incremented value.
allocate_tid_incr(s, p) == [s EXCEPT !.next_tid = s.tid[p] + 1]

\* thread_create() that takes a tid before it looks at what palloc_get_page()
\* returned.
palloc_failed_tid(s) == [s EXCEPT !.next_tid = @ + 1]

\* thread_create() when palloc_get_page() has no page: return TID_ERROR.
palloc_failed(s) == s

\* thread_create() up to allocate_tid(): palloc_get_page() and init_thread().
\* The page allocator may have no page left at any time; thread_start() runs
\* right after the allocator is initialised, when it has.
\* track: whether the history variable returned is kept.
\* pris: the priorities callers other than thread_start() pass.
ThreadCreate(t, limit, track, pris) ==
    /\ Executing(t)
    /\ pc[t] \in {"run", "ts_create"}
    /\ \E ok \in BOOLEAN, pri \in IF pc[t] = "ts_create" THEN {PRI_MIN} ELSE pris :
         IF ok
         THEN /\ FreshPages(K) # {}
              /\ Cardinality(Pages \ FreshPages(K)) < 2 + limit
              /\ LET p == CHOOSE q \in FreshPages(K) : \A r \in FreshPages(K) : q <= r
                 IN /\ Commit(init_thread(K, p, pri))
                    /\ pc' = [pc EXCEPT ![t] = "create_lock",
                                        ![p] = IF pc[t] = "ts_create" THEN "idle_begin" ELSE "run"]
                    /\ newt' = [newt EXCEPT ![t] = p]
                    /\ UNCHANGED <<preempted, sl_start, sl_ticks, hvars>>
         ELSE /\ pc[t] = "run"
              /\ Commit(palloc_failed(K))
              /\ returned' = IF track THEN TID_ERROR ELSE returned
              /\ UNCHANGED <<lvars, woken, delivered, ticks_level>>

\* allocate_tid(): lock_acquire (&tid_lock), at the call and each time the
\* thread is dispatched again inside its sema_down().
AllocateTid(t) ==
    /\ Executing(t)
    /\ pc[t] \in {"create_lock", "create_wait"}
    /\ LET blocks == tid_lock.value = 0
           s1 == IF pc[t] = "create_lock" THEN sema_down(K, "tid_lock")
                 ELSE sema_down_loop(K, "tid_lock")
           s2 == IF blocks \/ s1.panic THEN s1 ELSE [s1 EXCEPT !.tid_lock.holder = cur]
       IN /\ Commit(s2)
          /\ pc' = [pc EXCEPT ![t] = IF blocks THEN "create_wait" ELSE "create_read"]
          /\ UNCHANGED <<preempted, sl_start, sl_ticks, newt, hvars>>

\* tid = next_tid++, with interrupts enabled: the load ...
AllocateTidRead(t) ==
    /\ Executing(t)
    /\ pc[t] = "create_read"
    /\ Commit(allocate_tid_read(K, newt[t]))
    /\ pc' = [pc EXCEPT ![t] = "create_incr"]
    /\ UNCHANGED <<preempted, sl_start, sl_ticks, newt, hvars>>

\* ... and the store.
AllocateTidIncr(t) ==
    /\ Executing(t)
    /\ pc[t] = "create_incr"
    /\ Commit(allocate_tid_incr(K, newt[t]))
    /\ pc' = [pc EXCEPT ![t] = "create_rel"]
    /\ UNCHANGED <<preempted, sl_start, sl_ticks, newt, hvars>>

ThreadCreateRelease(t) ==
    /\ Executing(t)
    /\ pc[t] = "create_rel"
    /\ Commit(lock_release(K))
    /\ pc' = [pc EXCEPT ![t] = "create_unblock"]
    /\ UNCHANGED <<preempted, sl_start, sl_ticks, newt, hvars>>

\* thread_unblock (t); return tid;  -- tid is the value allocate_tid() gave.
\* track: whether the history variable returned is kept.
ThreadCreateUnblock(t, track) ==
    /\ Executing(t)
    /\ pc[t] = "create_unblock"
    /\ Commit(thread_unblock(K, newt[t]))
    /\ pc' = [pc EXCEPT ![t] = IF pc[newt[t]] = "idle_begin" THEN "ts_enable" ELSE "run"]
    /\ newt' = [newt EXCEPT ![t] = NULL]
    /\ returned' = IF track THEN tid[newt[t]] ELSE returned
    /\ UNCHANGED <<preempted, sl_start, sl_ticks, woken, delivered, ticks_level>>

\* ------------------------------------------------- thread_start()
ThreadStartEnable(t) ==
    /\ Executing(t)
    /\ pc[t] = "ts_enable"
    /\ Commit([K EXCEPT !.intr_level = "ON"])
    /\ pc' = [pc EXCEPT ![t] = "ts_down"]
    /\ UNCHANGED <<preempted, sl_start, sl_ticks, newt, hvars>>

\* sema_down (&idle_started), at the call and each time it is dispatched again
\* inside it.
\* thread_start() that returns without waiting for idle_started.
ThreadStartNoWait(t) ==
    /\ Executing(t)
    /\ pc[t] \in {"ts_down", "ts_down_wait"}
    /\ UNCHANGED kvars
    /\ pc' = [pc EXCEPT ![t] = "run"]
    /\ UNCHANGED <<preempted, sl_start, sl_ticks, newt, hvars>>

ThreadStartDown(t) ==
    /\ Executing(t)
    /\ pc[t] \in {"ts_down", "ts_down_wait"}
    /\ LET blocks == idle_started.value = 0
       IN /\ Commit(IF pc[t] = "ts_down" THEN sema_down(K, "idle_started")
                    ELSE sema_down_loop(K, "idle_started"))
          /\ pc' = [pc EXCEPT ![t] = IF blocks THEN "ts_down_wait" ELSE "run"]
    /\ UNCHANGED <<preempted, sl_start, sl_ticks, newt, hvars>>

\* ----------------------------------------------------------- idle()
IdleBegin(t) ==
    /\ Executing(t)
    /\ pc[t] = "idle_begin"
    /\ Commit(IF thread_current_ok(K) THEN [K EXCEPT !.idle_thread = t] ELSE PANIC(K))
    /\ pc' = [pc EXCEPT ![t] = "idle_up"]
    /\ UNCHANGED <<preempted, sl_start, sl_ticks, newt, hvars>>

IdleUp(t) ==
    /\ Executing(t)
    /\ pc[t] = "idle_up"
    /\ Commit(sema_up(K, "idle_started"))
    /\ pc' = [pc EXCEPT ![t] = "idle_loop"]
    /\ UNCHANGED <<preempted, sl_start, sl_ticks, newt, hvars>>

\* An idle() that only halts: after an interrupt it waits for the next one.
IdleBlockSkipped(t) ==
    /\ Executing(t)
    /\ pc[t] = "idle_loop"
    /\ Commit(K)
    /\ pc' = [pc EXCEPT ![t] = "idle_hlt"]
    /\ UNCHANGED <<preempted, sl_start, sl_ticks, newt, hvars>>

\* intr_disable (); thread_block ();
IdleBlock(t) ==
    /\ Executing(t)
    /\ pc[t] = "idle_loop"
    /\ Commit(thread_block([K EXCEPT !.intr_level = "OFF"]))
    /\ pc' = [pc EXCEPT ![t] = "idle_blocked"]
    /\ UNCHANGED <<preempted, sl_start, sl_ticks, newt, hvars>>

\* An idle() that goes round its loop without the hlt.
IdleHaltSkipped(t) ==
    /\ Executing(t)
    /\ pc[t] = "idle_blocked"
    /\ Commit([K EXCEPT !.intr_level = "ON"])
    /\ pc' = [pc EXCEPT ![t] = "idle_loop"]
    /\ UNCHANGED <<preempted, sl_start, sl_ticks, newt, hvars>>

\* sti; hlt  -- interrupts come back on and the processor waits for one.
IdleHalt(t) ==
    /\ Executing(t)
    /\ pc[t] = "idle_blocked"
    /\ Commit([K EXCEPT !.intr_level = "ON"])
    /\ pc' = [pc EXCEPT ![t] = "idle_hlt"]
    /\ UNCHANGED <<preempted, sl_start, sl_ticks, newt, hvars>>

\* ------------------------------------------ what a running thread calls
Yield(t) ==
    /\ Executing(t)
    /\ pc[t] = "run"
    /\ Commit(thread_yield(K))
    /\ pc' = [pc EXCEPT ![t] = "yield_ret"]
    /\ UNCHANGED <<preempted, sl_start, sl_ticks, newt, hvars>>

\* Dispatched again inside thread_yield(), thread_sleep() or a collaborator's
\* blocking call: intr_set_level (old_level), and return.
Return(t) ==
    /\ Executing(t)
    /\ pc[t] \in {"yield_ret", "sleep_ret", "block_ret"}
    /\ Commit(RestoreLevel(K))
    /\ pc' = [pc EXCEPT ![t] = "run"]
    /\ UNCHANGED <<preempted, sl_start, sl_ticks, newt, hvars>>

\* timer_ticks() that reads ticks without intr_disable().
timer_ticks_unmasked(s) == [value |-> s.ticks, level |-> s.intr_level]

\* timer_ticks(): intr_disable (); t = ticks; intr_set_level (old_level).  The
\* value read, and the interrupt level at the read.
timer_ticks_read(s) ==
    LET s1 == [s EXCEPT !.intr_level = "OFF"]
    IN [value |-> s1.ticks, level |-> s1.intr_level]

\* timer_ticks(): the tick counter, read with interrupts off.
timer_ticks(s) == timer_ticks_read(s).value

\* timer_elapsed() that takes no time to have passed since then.
timer_elapsed_none(s, then) == 0

\* timer_elapsed (then).
timer_elapsed(s, then) == timer_ticks(s) - then

\* timer_sleep (n):  int64_t start = timer_ticks ();
TimerSleepStart(t, args) ==
    /\ Executing(t)
    /\ pc[t] = "run"
    /\ \E n \in args :
         /\ sl_ticks' = [sl_ticks EXCEPT ![t] = n]
         /\ sl_start' = [sl_start EXCEPT ![t] = timer_ticks(K)]
    /\ pc' = [pc EXCEPT ![t] = "sleep_check"]
    /\ ticks_level' = timer_ticks_read(K).level
    /\ UNCHANGED <<kvars, preempted, newt, woken, delivered, returned>>

\* ASSERT (intr_get_level () == INTR_ON);  if (timer_elapsed (start) < ticks)
TimerSleepCheck(t) ==
    /\ Executing(t)
    /\ pc[t] = "sleep_check"
    /\ IF intr_level # "ON"
       THEN Commit(PANIC(K)) /\ UNCHANGED <<lvars, hvars>>
       ELSE /\ UNCHANGED <<kvars, woken, delivered, returned>>
            /\ ticks_level' = timer_ticks_read(K).level
            /\ IF timer_elapsed(K, sl_start[t]) < sl_ticks[t]
               THEN /\ pc' = [pc EXCEPT ![t] = "sleep_call"]
                    /\ UNCHANGED <<sl_start, sl_ticks>>
               ELSE /\ pc' = [pc EXCEPT ![t] = "run"]
                    /\ sl_start' = [sl_start EXCEPT ![t] = 0]
                    /\ sl_ticks' = [sl_ticks EXCEPT ![t] = 0]
            /\ UNCHANGED <<preempted, newt>>

\* thread_sleep (start + ticks);
TimerSleepCall(t) ==
    /\ Executing(t)
    /\ pc[t] = "sleep_call"
    /\ Commit(thread_sleep(K, sl_start[t] + sl_ticks[t]))
    /\ pc' = [pc EXCEPT ![t] = "sleep_ret"]
    /\ sl_start' = [sl_start EXCEPT ![t] = 0]
    /\ sl_ticks' = [sl_ticks EXCEPT ![t] = 0]
    /\ UNCHANGED <<preempted, newt, hvars>>

\* timer_calibrate():  ASSERT (intr_get_level () == INTR_ON), then
\* too_many_loops():  int64_t start = ticks;  -- read as it is, no intr_disable().
Calibrate(t) ==
    /\ Executing(t)
    /\ pc[t] = "run"
    /\ IF intr_level # "ON"
       THEN Commit(PANIC(K)) /\ UNCHANGED <<lvars, hvars>>
       ELSE /\ sl_start' = [sl_start EXCEPT ![t] = ticks]
            /\ pc' = [pc EXCEPT ![t] = "cal_wait"]
            /\ ticks_level' = intr_level
            /\ UNCHANGED <<kvars, preempted, sl_ticks, newt, woken, delivered, returned>>

\* while (ticks == start) barrier ();  start = ticks;  -- the loop ends once a
\* timer interrupt has come in between two of its reads.
CalibrateWait(t) ==
    /\ Executing(t)
    /\ pc[t] = "cal_wait"
    /\ ticks # sl_start[t]
    /\ sl_start' = [sl_start EXCEPT ![t] = ticks]
    /\ pc' = [pc EXCEPT ![t] = "cal_busy"]
    /\ ticks_level' = intr_level
    /\ UNCHANGED <<kvars, preempted, sl_ticks, newt, woken, delivered, returned>>

\* busy_wait (loops), however long it takes;  return start != ticks;
CalibrateEnd(t) ==
    /\ Executing(t)
    /\ pc[t] = "cal_busy"
    /\ sl_start' = [sl_start EXCEPT ![t] = 0]
    /\ pc' = [pc EXCEPT ![t] = "run"]
    /\ ticks_level' = intr_level
    /\ UNCHANGED <<kvars, preempted, sl_ticks, newt, woken, delivered, returned>>

\* thread_exit(), called by the thread or by kernel_thread() when the thread's
\* function returns.
Exit(t) ==
    /\ Executing(t)
    /\ pc[t] = "run"
    /\ Commit(thread_exit(K))
    /\ pc' = [pc EXCEPT ![t] = "dead"]
    /\ UNCHANGED <<preempted, sl_start, sl_ticks, newt, hvars>>

\* thread_set_priority(), called by a running thread.
SetPriority(t, pris) ==
    /\ Executing(t)
    /\ pc[t] = "run"
    /\ \E new \in pris : priority[t] # new /\ Commit(thread_set_priority(K, new))
    /\ UNCHANGED <<lvars, hvars>>

\* The process layer gives the running thread an address space: from now on it
\* is a user program.
process_load(s) == [s EXCEPT !.pml4[s.cur] = s.cur]

ProcessExec(t) ==
    /\ Executing(t)
    /\ pc[t] = "run"
    /\ pml4[t] = NULL
    /\ Commit(process_load(K))
    /\ UNCHANGED <<lvars, hvars>>

\* A collaborator's blocking call: with interrupts off it records the caller
\* where it will find it again, then calls thread_block().
collab_block(s) ==
    thread_block([s EXCEPT !.old_level[s.cur] = s.intr_level,
                           !.intr_level = "OFF",
                           !.waiters = @ \cup {s.cur}])

Block(t) ==
    /\ Executing(t)
    /\ pc[t] = "run"
    /\ Commit(collab_block(K))
    /\ pc' = [pc EXCEPT ![t] = "block_ret"]
    /\ UNCHANGED <<preempted, sl_start, sl_ticks, newt, hvars>>

\* A collaborator's releasing call: thread_unblock() on a thread it parked.
Unblock(t) ==
    /\ Executing(t)
    /\ pc[t] = "run"
    /\ \E w \in waiters :
         Commit(thread_unblock([K EXCEPT !.waiters = @ \ {w}], w))
    /\ UNCHANGED <<lvars, hvars>>

\* ------------------------------------------------------- interrupts
\* The 8254 raises its interrupt while interrupts are enabled: the processor
\* masks interrupts, enters the handler, and timer_interrupt() runs.  An idle
\* thread waiting in hlt resumes after the hlt.
TimerInterrupt(limit) ==
    /\ ~panic
    /\ ~in_intr
    /\ intr_level = "ON"
    /\ ticks < limit
    /\ Commit(timer_interrupt([K EXCEPT !.in_intr = TRUE, !.intr_level = "OFF"]))
    /\ pc' = [pc EXCEPT ![cur] = IF @ = "idle_hlt" THEN "idle_loop" ELSE @]
    /\ woken' = [i \in 1..(Len(ready_list') - Len(ready_list)) |->
                   LET w == ready_list'[Len(ready_list) + i]
                   IN <<w, wakeup_tick[w]>>]
    /\ ticks_level' = intr_level'
    /\ UNCHANGED <<preempted, sl_start, sl_ticks, newt, delivered, returned>>

\* The end of intr_handler(): leave interrupt context, then thread_yield() if
\* the handler asked for it, else iret back to the interrupted code.
intr_return(s) ==
    LET s1 == [s EXCEPT !.in_intr = FALSE, !.yield_on_return = FALSE]
    IN IF s.yield_on_return THEN thread_yield(s1)
       ELSE [s1 EXCEPT !.intr_level = "ON"]

\* track: whether the history variable delivered is kept.
IntrReturn(track) ==
    /\ ~panic
    /\ in_intr
    /\ Commit(intr_return(K))
    /\ preempted' = [preempted EXCEPT ![cur] = yield_on_return]
    /\ woken' = <<>>
    /\ delivered' = IF track /\ woken # <<>> THEN woken[Len(woken)][2] ELSE delivered
    /\ UNCHANGED <<pc, sl_start, sl_ticks, newt, returned, ticks_level>>

\* A preempted thread is dispatched again: thread_yield() restores the level it
\* saved (off), intr_handler() returns and iret re-enables interrupts.
ResumePreempted(t) ==
    /\ cur = t
    /\ ~panic
    /\ ~in_intr
    /\ preempted[t]
    /\ Commit([RestoreLevel(K) EXCEPT !.intr_level = "ON"])
    /\ preempted' = [preempted EXCEPT ![t] = FALSE]
    /\ UNCHANGED <<pc, sl_start, sl_ticks, newt, hvars>>

\* What the threads do, each in its own code.
ThreadStep ==
    \/ \E t \in Pages : ThreadCreate(t, MaxCreate, FALSE, {PRI_DEFAULT})
    \/ \E t \in Pages : AllocateTid(t)
    \/ \E t \in Pages : AllocateTidRead(t)
    \/ \E t \in Pages : AllocateTidIncr(t)
    \/ \E t \in Pages : ThreadCreateRelease(t)
    \/ \E t \in Pages : ThreadCreateUnblock(t, FALSE)
    \/ \E t \in Pages : ThreadStartEnable(t)
    \/ \E t \in Pages : ThreadStartDown(t)
    \/ \E t \in Pages : IdleBegin(t)
    \/ \E t \in Pages : IdleUp(t)
    \/ \E t \in Pages : IdleBlock(t)
    \/ \E t \in Pages : IdleHalt(t)
    \/ \E t \in Pages : Yield(t)
    \/ \E t \in Pages : Return(t)
    \/ \E t \in Pages : TimerSleepStart(t, SleepArgs)
    \/ \E t \in Pages : TimerSleepCheck(t)
    \/ \E t \in Pages : TimerSleepCall(t)
    \/ \E t \in Pages : Exit(t)
    \/ \E t \in Pages : Block(t)
    \/ \E t \in Pages : Unblock(t)
    \/ \E t \in Pages : ResumePreempted(t)

Next ==
    \/ ThreadStep
    \/ TimerInterrupt(MaxTick)
    \/ IntrReturn(FALSE)

Spec == Init /\ [][Next]_vars

\* The program with the history variable delivered kept up to date, and with
\* threads that, once created, only call timer_sleep() (or are preempted).
NextH ==
    \/ \E t \in Pages : ThreadCreate(t, MaxCreate, FALSE, {PRI_DEFAULT})
    \/ \E t \in Pages : AllocateTid(t)
    \/ \E t \in Pages : AllocateTidRead(t)
    \/ \E t \in Pages : AllocateTidIncr(t)
    \/ \E t \in Pages : ThreadCreateRelease(t)
    \/ \E t \in Pages : ThreadCreateUnblock(t, FALSE)
    \/ \E t \in Pages : ThreadStartEnable(t)
    \/ \E t \in Pages : ThreadStartDown(t)
    \/ \E t \in Pages : IdleBegin(t)
    \/ \E t \in Pages : IdleUp(t)
    \/ \E t \in Pages : IdleBlock(t)
    \/ \E t \in Pages : IdleHalt(t)
    \/ \E t \in Pages : Return(t)
    \/ \E t \in Pages : TimerSleepStart(t, SleepArgs)
    \/ \E t \in Pages : TimerSleepCheck(t)
    \/ \E t \in Pages : TimerSleepCall(t)
    \/ \E t \in Pages : ResumePreempted(t)
    \/ TimerInterrupt(MaxTick)
    \/ IntrReturn(TRUE)

SpecH == Init /\ [][NextH]_vars

\* ------------------------------------------------------------ misuse
\* A running thread calls thread_unblock() on a thread that is not BLOCKED.
MisuseUnblock(t, w) ==
    /\ Executing(t)
    /\ pc[t] = "run"
    /\ K.status[w] \in {"READY", "RUNNING", "DYING"}
    /\ Commit(thread_unblock(K, w))
    /\ UNCHANGED <<lvars, hvars>>

NextM ==
    \/ ThreadStep
    \/ TimerInterrupt(MaxTick)
    \/ IntrReturn(FALSE)
    \/ \E t, w \in Pages : MisuseUnblock(t, w)

SpecM == Init /\ [][NextM]_vars

\* ------------------------------------------- misuse of entry points
\* An interrupt handler in progress calls an entry point that must not be
\* called in interrupt context.
MisuseBlock == ~panic /\ in_intr /\ Commit(thread_block(K)) /\ UNCHANGED <<lvars, hvars>>

MisuseYield == ~panic /\ in_intr /\ Commit(thread_yield(K)) /\ UNCHANGED <<lvars, hvars>>

MisuseExit == ~panic /\ in_intr /\ Commit(thread_exit(K)) /\ UNCHANGED <<lvars, hvars>>

MisuseSleep ==
    /\ ~panic
    /\ in_intr
    /\ \E tk \in SleepArgs : Commit(thread_sleep(K, ticks + tk))
    /\ UNCHANGED <<lvars, hvars>>

\* A running thread calls thread_block() with interrupts enabled.
MisuseBlockEnabled(t) ==
    /\ Executing(t)
    /\ pc[t] = "run"
    /\ intr_level = "ON"
    /\ Commit(thread_block(K))
    /\ UNCHANGED <<lvars, hvars>>

NextI ==
    \/ ThreadStep
    \/ TimerInterrupt(MaxTick)
    \/ IntrReturn(FALSE)
    \/ MisuseBlock
    \/ MisuseYield
    \/ MisuseExit
    \/ MisuseSleep
    \/ \E t \in Pages : MisuseBlockEnabled(t)

SpecI == Init /\ [][NextI]_vars

\* ---------------------------------------------- calibration scenario
\* main calls timer_calibrate() after thread_start(), as often as it likes;
\* the threads it creates only call timer_sleep().
NextT ==
    \/ ThreadCreate(initial_thread, MaxCreate, FALSE, {PRI_DEFAULT})
    \/ AllocateTid(initial_thread)
    \/ AllocateTidRead(initial_thread)
    \/ AllocateTidIncr(initial_thread)
    \/ ThreadCreateRelease(initial_thread)
    \/ ThreadCreateUnblock(initial_thread, FALSE)
    \/ ThreadStartEnable(initial_thread)
    \/ ThreadStartDown(initial_thread)
    \/ \E t \in Pages : IdleBegin(t)
    \/ \E t \in Pages : IdleUp(t)
    \/ \E t \in Pages : IdleBlock(t)
    \/ \E t \in Pages : IdleHalt(t)
    \/ \E t \in Pages : Return(t)
    \/ \E t \in Pages : TimerSleepStart(t, SleepArgs)
    \/ \E t \in Pages : TimerSleepCheck(t)
    \/ \E t \in Pages : TimerSleepCall(t)
    \/ Calibrate(initial_thread)
    \/ CalibrateWait(initial_thread)
    \/ CalibrateEnd(initial_thread)
    \/ \E t \in Pages : ResumePreempted(t)
    \/ TimerInterrupt(MaxTick)
    \/ IntrReturn(FALSE)

SpecT == Init /\ [][NextT]_vars

\* ---------------------------------------------- timer_sleep scenario
\* The threads main creates, and main, call timer_sleep() with any argument,
\* negative, zero or positive, and do nothing else.
AnySleepArgs == (0 - 1)..MaxSleep

NextS ==
    \/ ThreadCreate(initial_thread, MaxCreate, FALSE, {PRI_DEFAULT})
    \/ AllocateTid(initial_thread)
    \/ AllocateTidRead(initial_thread)
    \/ AllocateTidIncr(initial_thread)
    \/ ThreadCreateRelease(initial_thread)
    \/ ThreadCreateUnblock(initial_thread, FALSE)
    \/ ThreadStartEnable(initial_thread)
    \/ ThreadStartDown(initial_thread)
    \/ \E t \in Pages : IdleBegin(t)
    \/ \E t \in Pages : IdleUp(t)
    \/ \E t \in Pages : IdleBlock(t)
    \/ \E t \in Pages : IdleHalt(t)
    \/ \E t \in Pages : Return(t)
    \/ \E t \in Pages : TimerSleepStart(t, AnySleepArgs)
    \/ \E t \in Pages : TimerSleepCheck(t)
    \/ \E t \in Pages : TimerSleepCall(t)
    \/ \E t \in Pages : ResumePreempted(t)
    \/ TimerInterrupt(MaxTick)
    \/ IntrReturn(FALSE)

SpecS == Init /\ [][NextS]_vars

\* ------------------------------------------------- liveness scenario
\* The tick counter of the model is bounded, so timer interrupts arrive until
\* it is LTick.  A thread goes to sleep only while enough ticks are left for
\* its deadline to pass and for every other thread to use up a time slice
\* after that, and exits only while a time slice of ticks is left.
SleepSlack == MaxCreate * TIME_SLICE + 1
LTick == 1 + MaxSleep + SleepSlack

\* Threads create, yield, sleep, block, release and exit as they like.
ThreadStepL ==
    \/ \E t \in Pages : ThreadCreate(t, MaxCreate, FALSE, {PRI_DEFAULT})
    \/ \E t \in Pages : AllocateTid(t)
    \/ \E t \in Pages : AllocateTidRead(t)
    \/ \E t \in Pages : AllocateTidIncr(t)
    \/ \E t \in Pages : ThreadCreateRelease(t)
    \/ \E t \in Pages : ThreadCreateUnblock(t, FALSE)
    \/ \E t \in Pages : ThreadStartEnable(t)
    \/ \E t \in Pages : ThreadStartDown(t)
    \/ \E t \in Pages : IdleBegin(t)
    \/ \E t \in Pages : IdleUp(t)
    \/ \E t \in Pages : IdleBlock(t)
    \/ \E t \in Pages : IdleHalt(t)
    \/ \E t \in Pages : Yield(t)
    \/ \E t \in Pages : Return(t)
    \/ \E t \in Pages : ticks + MaxSleep + SleepSlack <= LTick /\ TimerSleepStart(t, SleepArgs)
    \/ \E t \in Pages : TimerSleepCheck(t)
    \/ \E t \in Pages : ticks + SleepSlack <= LTick /\ TimerSleepCall(t)
    \/ \E t \in Pages : ticks + SleepSlack <= LTick /\ Exit(t)
    \/ \E t \in Pages : Block(t)
    \/ \E t \in Pages : Unblock(t)
    \/ \E t \in Pages : ResumePreempted(t)

\* The running thread goes on with the call it is in, or with the code it was
\* preempted in; what it does between calls, and whether it ever makes
\* another, is up to it.
Progress == (pc[cur] # "run" \/ preempted[cur]) /\ ThreadStepL

\* ENABLED <<Progress>>_vars : the running thread is inside a call and not
\* halted in idle()'s hlt.
MidCall ==
    {"ts_create", "create_lock", "create_wait", "create_read", "create_incr",
     "create_rel", "create_unblock", "ts_enable", "ts_down", "ts_down_wait",
     "idle_begin", "idle_up", "idle_loop", "idle_blocked",
     "yield_ret", "sleep_ret", "block_ret", "sleep_check"}

Continuing ==
    /\ ~panic /\ ~in_intr
    /\ \/ preempted[cur]
       \/ pc[cur] \in MidCall
       \/ pc[cur] = "sleep_call" /\ ticks + SleepSlack <= LTick

\* A call into the kernel takes far less than a tick, and the model gives no
\* bound on how long a thread stays where it is: here the timer interrupts a
\* thread between its calls, and the idle thread in its hlt.
TimerInterruptL == ~Continuing /\ TimerInterrupt(LTick)

NextL ==
    \/ ThreadStepL
    \/ TimerInterruptL
    \/ IntrReturn(FALSE)

\* ENABLED <<TimerInterruptL>>_vars : the timer can interrupt.
TimerPending == ~Continuing /\ ~panic /\ ~in_intr /\ intr_level = "ON" /\ ticks < LTick

\* The steps of NextL that are steps of Progress, of IntrReturn and of
\* TimerInterruptL.
ProgressStep == Continuing /\ in_intr' = in_intr
IntrReturnStep == in_intr /\ ~in_intr'
TimerInterruptStep == ~in_intr /\ in_intr'

\* The processor executes the running thread's code and finishes interrupt
\* handlers (weak fairness of Progress and of IntrReturn); the timer's
\* interrupt stays pending while interrupts are off and is taken when they come
\* on again (strong fairness of TimerInterruptL).  WF_vars(A) is written out as
\* <>[](ENABLED <<A>>_vars) => []<><<A>>_vars and SF_vars(A) as
\* []<>(ENABLED <<A>>_vars) => []<><<A>>_vars, with the state predicates above
\* for ENABLED.
SpecL ==
    /\ Init /\ [][NextL]_vars
    /\ (<>[]Continuing => []<><<ProgressStep>>_vars)
    /\ (<>[](~panic /\ in_intr) => []<><<IntrReturnStep>>_vars)
    /\ ([]<>TimerPending => []<><<TimerInterruptStep>>_vars)

\* The state predicates are the ENABLED of the actions, and the step
\* predicates pick out the actions' steps.
FairnessAsWritten ==
    /\ Continuing <=> ENABLED <<Progress>>_vars
    /\ (~panic /\ in_intr) <=> ENABLED <<IntrReturn(FALSE)>>_vars
    /\ TimerPending <=> ENABLED <<TimerInterruptL>>_vars

FairnessStepsAsWritten ==
    [][ /\ ProgressStep <=> Progress
        /\ IntrReturnStep <=> IntrReturn(FALSE)
        /\ TimerInterruptStep <=> TimerInterruptL ]_vars

\* ------------------------------------------------ user-program scenario
\* Threads yield and exit as they like, and any of them may become a user
\* program.
NextU ==
    \/ ThreadCreate(initial_thread, MaxCreate, FALSE, {PRI_DEFAULT})
    \/ AllocateTid(initial_thread)
    \/ AllocateTidRead(initial_thread)
    \/ AllocateTidIncr(initial_thread)
    \/ ThreadCreateRelease(initial_thread)
    \/ ThreadCreateUnblock(initial_thread, FALSE)
    \/ ThreadStartEnable(initial_thread)
    \/ ThreadStartDown(initial_thread)
    \/ \E t \in Pages : IdleBegin(t)
    \/ \E t \in Pages : IdleUp(t)
    \/ \E t \in Pages : IdleBlock(t)
    \/ \E t \in Pages : IdleHalt(t)
    \/ \E t \in Pages : Yield(t)
    \/ \E t \in Pages : Return(t)
    \/ \E t \in Pages : ProcessExec(t)
    \/ \E t \in Pages : Exit(t)
    \/ \E t \in Pages : ResumePreempted(t)
    \/ TimerInterrupt(MaxTick)
    \/ IntrReturn(FALSE)

SpecU == Init /\ [][NextU]_vars

\* ------------------------------------------------- creation scenario
\* Every thread may call thread_create(), until MaxSpawn threads have been
\* created besides main and the idle thread; threads yield, exit, and are
\* preempted, also inside thread_create().  The history variable returned is
\* kept up to date.
NextC ==
    \/ \E t \in Pages : ThreadCreate(t, MaxSpawn, TRUE, {PRI_DEFAULT})
    \/ \E t \in Pages : AllocateTid(t)
    \/ \E t \in Pages : AllocateTidRead(t)
    \/ \E t \in Pages : AllocateTidIncr(t)
    \/ \E t \in Pages : ThreadCreateRelease(t)
    \/ \E t \in Pages : ThreadCreateUnblock(t, TRUE)
    \/ \E t \in Pages : ThreadStartEnable(t)
    \/ \E t \in Pages : ThreadStartDown(t)
    \/ \E t \in Pages : IdleBegin(t)
    \/ \E t \in Pages : IdleUp(t)
    \/ \E t \in Pages : IdleBlock(t)
    \/ \E t \in Pages : IdleHalt(t)
    \/ \E t \in Pages : Yield(t)
    \/ \E t \in Pages : Return(t)
    \/ \E t \in Pages : Exit(t)
    \/ \E t \in Pages : ResumePreempted(t)
    \/ TimerInterrupt(MaxTick)
    \/ IntrReturn(FALSE)

SpecC == Init /\ [][NextC]_vars

\* ------------------------------------------------- priority scenario
\* main creates threads with any of the priorities PriArgs; the threads yield,
\* sleep, exit, and set their own priority as they like, for fewer ticks than
\* a time slice.
NextP ==
    \/ ThreadCreate(initial_thread, MaxPri, FALSE, PriArgs)
    \/ AllocateTid(initial_thread)
    \/ AllocateTidRead(initial_thread)
    \/ AllocateTidIncr(initial_thread)
    \/ ThreadCreateRelease(initial_thread)
    \/ ThreadCreateUnblock(initial_thread, FALSE)
    \/ ThreadStartEnable(initial_thread)
    \/ ThreadStartDown(initial_thread)
    \/ \E t \in Pages : IdleBegin(t)
    \/ \E t \in Pages : IdleUp(t)
    \/ \E t \in Pages : IdleBlock(t)
    \/ \E t \in Pages : IdleHalt(t)
    \/ \E t \in Pages : Yield(t)
    \/ \E t \in Pages : Return(t)
    \/ \E t \in Pages : TimerSleepStart(t, {1})
    \/ \E t \in Pages : TimerSleepCheck(t)
    \/ \E t \in Pages : TimerSleepCall(t)
    \/ \E t \in Pages : Exit(t)
    \/ \E t \in Pages : SetPriority(t, PriArgs)
    \/ TimerInterrupt(PTick)
    \/ IntrReturn(FALSE)

SpecP == Init /\ [][NextP]_vars

\* ---------------------------------------------- round-robin scenario
\* main boots the kernel, creates MaxRR threads and then yields or exits; the
\* created threads are CPU-bound: they only yield, or are preempted.
AllCreated == Cardinality(Pages \ FreshPages(K)) = 2 + MaxRR

NextRR ==
    \/ ThreadCreate(initial_thread, MaxRR, FALSE, {PRI_DEFAULT})
    \/ AllocateTid(initial_thread)
    \/ AllocateTidRead(initial_thread)
    \/ AllocateTidIncr(initial_thread)
    \/ ThreadCreateRelease(initial_thread)
    \/ ThreadCreateUnblock(initial_thread, FALSE)
    \/ ThreadStartEnable(initial_thread)
    \/ ThreadStartDown(initial_thread)
    \/ \E t \in Pages : IdleBegin(t)
    \/ \E t \in Pages : IdleUp(t)
    \/ \E t \in Pages : IdleBlock(t)
    \/ \E t \in Pages : Yield(t)
    \/ \E t \in Pages : Return(t)
    \/ AllCreated /\ Exit(initial_thread)
    \/ \E t \in Pages : ResumePreempted(t)
    \/ TimerInterrupt(MaxTick)
    \/ IntrReturn(FALSE)

SpecRR == Init /\ [][NextRR]_vars

\* ---------------------------------------------------- sleep scenario
\* main boots the kernel and creates thread A at tick 0.  A runs until the tick
\* counter is ATick and then calls timer_sleep (ASleep); its thread_sleep()
\* happens during that same tick.  main sleeps and yields as it likes.
ATick == 10
ASleep == 5
AMaxTick == 16

IsA(t) == tid[t] = 3

NextA ==
    \/ ticks = 0 /\ ThreadCreate(initial_thread, 1, FALSE, {PRI_DEFAULT})
    \/ AllocateTid(initial_thread)
    \/ AllocateTidRead(initial_thread)
    \/ AllocateTidIncr(initial_thread)
    \/ ThreadCreateRelease(initial_thread)
    \/ ThreadCreateUnblock(initial_thread, FALSE)
    \/ ThreadStartEnable(initial_thread)
    \/ ThreadStartDown(initial_thread)
    \/ \E t \in Pages : IdleBegin(t)
    \/ \E t \in Pages : IdleUp(t)
    \/ \E t \in Pages : IdleBlock(t)
    \/ \E t \in Pages : IdleHalt(t)
    \/ \E t \in Pages : Yield(t)
    \/ \E t \in Pages : Return(t)
    \/ TimerSleepStart(initial_thread, SleepArgs)
    \/ \E t \in Pages : IsA(t) /\ ticks = ATick /\ TimerSleepStart(t, {ASleep})
    \/ \E t \in Pages : TimerSleepCheck(t)
    \/ TimerSleepCall(initial_thread)
    \/ \E t \in Pages : IsA(t) /\ ticks = ATick /\ TimerSleepCall(t)
    \/ \E t \in Pages : ResumePreempted(t)
    \/ TimerInterrupt(AMaxTick)
    \/ IntrReturn(FALSE)

SpecA == Init /\ [][NextA]_vars

\* ================================================================ claims
Live(t) == status[t] \notin {"NONE", "FREED"}
QueueCount(t) == Count(ready_list, t) + Count(sleep_list, t) + Count(destruction_req, t)
\* thread_create() has initialised t and not yet unblocked it.
UnderConstruction(t) == \E c \in Pages : newt[c] = t
\* t is where a collaborator that called thread_block() for it will find it.
Parked(t) == t \in waiters \/ InList(tid_lock.waiters, t) \/ InList(idle_started.waiters, t)

\* C1 as claimed: every live thread is the RUNNING thread or a member of
\* exactly one of the ready, sleep and destruction queues.
C1_ConservationAsClaimed ==
    \A t \in Pages :
        Live(t) /\ ~UnderConstruction(t) =>
            IF t = cur THEN QueueCount(t) = 0 ELSE QueueCount(t) = 1

\* C1, amended: a live thread is in at most one queue, at most once; the
\* RUNNING thread is in none; a thread that is not RUNNING is in none only
\* when it is BLOCKED and parked by a collaborator, or the BLOCKED idle thread,
\* or not yet unblocked by thread_create(), or the preempted idle thread
\* (READY, never queued), or the bootstrap thread after its exit.
C1_Conservation ==
    \A t \in Pages :
        Live(t) =>
            /\ QueueCount(t) <= 1
            /\ t = cur => QueueCount(t) = 0
            /\ QueueCount(t) = 0 =>
                  \/ t = cur
                  \/ status[t] = "BLOCKED"
                       /\ (Parked(t) \/ UnderConstruction(t) \/ t = idle_thread)
                  \/ status[t] = "READY" /\ t = idle_thread
                  \/ status[t] = "DYING" /\ t = initial_thread

\* An exited thread awaits reclamation and another sleeps while the idle thread runs.
C1_Witness ==
    /\ destruction_req # <<>>
    /\ sleep_list # <<>>
    /\ cur = idle_thread
    /\ ~in_intr

\* C2: a thread is in at most one of the three queues, at most once, and its
\* list element is linked into at most one list (semaphore waiters included).
C2_AtMostOneQueue ==
    \A t \in Pages :
        /\ QueueCount(t) <= 1
        /\ QueueCount(t) + Count(tid_lock.waiters, t) + Count(idle_started.waiters, t) <= 1

\* Both threads other than the idle thread are queued, in different queues.
C2_Witness ==
    /\ Len(ready_list) = 1
    /\ Len(sleep_list) = 1
    /\ ready_list[1] # sleep_list[1]

\* C3: exactly one thread has status RUNNING, the one the processor executes.
C3_OneRunning ==
    /\ Cardinality({t \in Pages : status[t] = "RUNNING"}) = 1
    /\ status[cur] = "RUNNING"

\* A context switch has happened: a created thread runs while main is READY.
C3_Witness ==
    /\ cur \notin {initial_thread, idle_thread}
    /\ status[initial_thread] = "READY"
    /\ status[cur] = "RUNNING"

\* The threads of the round-robin scenario that take part in the rotation: main
\* has tid 1, the idle thread tid 2, T1..TN the tids after them, in the order
\* of their creation.
Runnable(t) == status[t] \in {"READY", "RUNNING"}
RRThreads == {t \in Pages : tid[t] > 2 /\ Runnable(t)}
RRFirst == CHOOSE t \in RRThreads : \A u \in RRThreads : tid[t] <= tid[u]
RRLast(t) == \A u \in RRThreads : tid[u] <= tid[t]
RRSucc(t) ==
    IF RRLast(t) THEN RRFirst
    ELSE CHOOSE u \in RRThreads :
             /\ tid[u] > tid[t]
             /\ \A v \in RRThreads : tid[v] > tid[t] => tid[u] <= tid[v]

\* C4: with T1..TN created in that order and only yielding or being preempted,
\* every dispatch away from Ti selects T(i+1), and away from TN selects T1; the
\* creating thread, as long as it is itself runnable, takes its turn between TN
\* and T1.
C4_RoundRobin ==
    [][(RRThreads # {} /\ cur' # cur) =>
           IF cur = initial_thread THEN cur' = RRFirst
           ELSE /\ cur \in RRThreads
                /\ IF RRLast(cur) /\ Runnable(initial_thread)
                   THEN cur' = initial_thread
                   ELSE cur' = RRSucc(cur)]_vars

\* main has exited, every Ti has run and yielded, and T1 is running again with
\* the others queued behind it in creation order.
C4_Witness ==
    /\ status[initial_thread] = "DYING"
    /\ Cardinality(RRThreads) = MaxRR
    /\ cur = RRFirst
    /\ \A t \in RRThreads : pc[t] = "yield_ret"
    /\ Len(ready_list) = MaxRR - 1
    /\ \A i \in 1..Len(ready_list) : tid[ready_list[i]] = tid[cur] + i

IsPrefix(a, b) == Len(a) <= Len(b) /\ SubSeq(b, 1, Len(a)) = a

\* The running thread gives up the processor but stays runnable: it calls
\* thread_yield() itself, or the interrupt it was in ends with one.
YieldStep ==
    \/ pc[cur] = "run" /\ pc'[cur] = "yield_ret"
    \/ in_intr /\ yield_on_return /\ ~in_intr'

\* C5: ready_list is first in, first out.  Every step leaves the queued threads
\* in their order and adds threads only behind them; a thread leaves the queue
\* only from the front and only to become the running thread; a running thread
\* that yields goes behind every thread already queued, so the front one runs
\* next.  Hence of two queued threads the one queued first is selected first.
C5_ReadyQueueFIFO ==
    [][\/ /\ cur' = cur
          /\ IsPrefix(ready_list, ready_list')
          /\ ~(YieldStep /\ ready_list # <<>>)
       \/ /\ ready_list # <<>>
          /\ cur' = Head(ready_list)
          /\ ready_list' \in {Tail(ready_list), Tail(ready_list) \o <<cur>>}
       \/ /\ ready_list = <<>>
          /\ ready_list' = <<>>
          /\ cur' = idle_thread]_vars

\* Two sleepers were woken and queued; the one queued first has been selected
\* and the other is still waiting its turn.
C5_Witness ==
    /\ ~in_intr
    /\ Len(ready_list) = 1
    /\ status[cur] = "RUNNING"
    /\ pc[cur] = "sleep_ret"
    /\ pc[ready_list[1]] = "sleep_ret"

\* C6: the wakeup_tick values of sleep_list are non-decreasing front to back.
C6_SleepQueueSorted ==
    \A i, j \in 1..Len(sleep_list) :
        i < j => wakeup_tick[sleep_list[i]] <= wakeup_tick[sleep_list[j]]

\* Two threads sleep with different deadlines.
C6_Witness ==
    /\ Len(sleep_list) = 2
    /\ wakeup_tick[sleep_list[1]] < wakeup_tick[sleep_list[2]]

\* A step in which timer_interrupt(), and with it thread_wakeup (ticks), runs.
WakeupStep == ~in_intr /\ in_intr'

\* C7: thread_wakeup (now) moves to the back of ready_list, in order, the
\* longest front part of sleep_list whose deadlines are <= now; these are all
\* the threads with a deadline <= now; the rest of sleep_list stays as it was,
\* in the same order, with the same deadlines, BLOCKED and still sorted.
C7_WakeupCorrect ==
    [][WakeupStep =>
          LET now == ticks'
              n == Len(sleep_list)
              due == {i \in 1..n : wakeup_tick[sleep_list[i]] <= now}
              k == Cardinality(due)
          IN /\ due = 1..k
             /\ ready_list' = ready_list \o SubSeq(sleep_list, 1, k)
             /\ sleep_list' = SubSeq(sleep_list, k + 1, n)
             /\ \A i \in 1..k : status'[sleep_list[i]] = "READY"
             /\ \A i \in (k + 1)..n :
                    /\ wakeup_tick'[sleep_list[i]] = wakeup_tick[sleep_list[i]]
                    /\ status'[sleep_list[i]] = "BLOCKED"
             /\ \A i, j \in 1..Len(sleep_list') :
                    i < j => wakeup_tick'[sleep_list'[i]] <= wakeup_tick'[sleep_list'[j]]]_vars

\* A wakeup has moved one sleeper and left another, whose deadline is later.
C7_Witness ==
    /\ in_intr
    /\ Len(woken) = 1
    /\ Len(sleep_list) = 1
    /\ woken[1][2] <= ticks
    /\ wakeup_tick[sleep_list[1]] > ticks

\* The position of thread t in list l.
Pos(l, t) == CHOOSE i \in 1..Len(l) : l[i] = t

\* C8: a thread that goes to sleep is put behind every sleeper whose deadline
\* is equal to (or less than) its own and the sleepers already there keep
\* their order; thread_wakeup() appends the threads it moves to ready_list in
\* the order they had in sleep_list.  So sleepers with equal deadlines stay in
\* the order of their calls, in sleep_list and on their way to ready_list.
C8_TiesStable ==
    [][/\ Len(sleep_list') = Len(sleep_list) + 1 =>
            LET p == Pos(sleep_list', cur)
            IN /\ ~InList(sleep_list, cur)
               /\ sleep_list = SubSeq(sleep_list', 1, p - 1)
                                 \o SubSeq(sleep_list', p + 1, Len(sleep_list'))
               /\ \A i \in 1..(p - 1) :
                      wakeup_tick'[sleep_list'[i]] <= wakeup_tick'[cur]
               /\ \A i \in (p + 1)..Len(sleep_list') :
                      wakeup_tick'[sleep_list'[i]] > wakeup_tick'[cur]
       /\ WakeupStep =>
            \A i, j \in 1..Len(sleep_list) :
                /\ i < j
                /\ InList(ready_list', sleep_list[i])
                /\ InList(ready_list', sleep_list[j])
                => Pos(ready_list', sleep_list[i]) < Pos(ready_list', sleep_list[j])]_vars

\* Two sleepers with the same deadline have been moved by one thread_wakeup().
C8_Witness ==
    /\ in_intr
    /\ Len(woken) = 2
    /\ woken[1][2] = woken[2][2]

\* C9: a thread in sleep_list is BLOCKED and not running; a step that is not a
\* thread_wakeup(), and a thread_wakeup (now) with now less than its deadline,
\* leave it there, BLOCKED, with its deadline; the first thread_wakeup (now)
\* with now at or past its deadline moves it to ready_list.  It is removed only
\* when the tick counter has reached its deadline, so it never runs before.
C9_SleepsUntilDeadline ==
    [][\A t \in Pages :
          InList(sleep_list, t) =>
              /\ status[t] = "BLOCKED"
              /\ cur # t
              /\ IF WakeupStep /\ wakeup_tick[t] <= ticks'
                 THEN /\ ~InList(sleep_list', t)
                      /\ InList(ready_list', t)
                      /\ status'[t] = "READY"
                      /\ cur' # t
                 ELSE /\ InList(sleep_list', t)
                      /\ wakeup_tick'[t] = wakeup_tick[t]
                      /\ status'[t] = "BLOCKED"
                      /\ cur' # t]_vars

\* Thread A, asleep since tick ATick with deadline ATick + ASleep, has been
\* left in sleep_list by every thread_wakeup() up to ATick + ASleep - 1 and has
\* just been moved by thread_wakeup (ATick + ASleep).
C9_Witness ==
    /\ in_intr
    /\ ticks = ATick + ASleep
    /\ \E i \in 1..Len(woken) :
          /\ IsA(woken[i][1])
          /\ woken[i][2] = ATick + ASleep
          /\ InList(ready_list, woken[i][1])

\* C10 as claimed: over the whole execution the deadlines of the threads moved
\* to ready_list never decrease.
C10_DeliveryOrderAsClaimed ==
    in_intr =>
        /\ \A i \in 1..Len(woken) : delivered <= woken[i][2]
        /\ \A i, j \in 1..Len(woken) : i < j => woken[i][2] <= woken[j][2]

\* C10, amended: one thread_wakeup() moves threads in non-decreasing deadline
\* order and no thread it leaves behind has an earlier deadline than one it
\* moves; a thread is moved after a thread with a later deadline only if its
\* own deadline had already passed before the tick that moves it.
C10_DeliveryOrder ==
    in_intr =>
        /\ \A i, j \in 1..Len(woken) : i < j => woken[i][2] <= woken[j][2]
        /\ \A i \in 1..Len(woken) :
               \A j \in 1..Len(sleep_list) : woken[i][2] <= wakeup_tick[sleep_list[j]]
        /\ \A i \in 1..Len(woken) : woken[i][2] < delivered => woken[i][2] < ticks

\* One thread_wakeup() has moved two threads with different deadlines, after
\* an earlier one had moved a thread.
C10_Witness ==
    /\ in_intr
    /\ Len(woken) = 2
    /\ woken[1][2] < woken[2][2]
    /\ delivered > 0

\* The thread that runs idle(): the one thread_start() created.
IsIdle(t) == t # NULL /\ pc[t] \in {"idle_begin", "idle_up", "idle_loop", "idle_blocked", "idle_hlt"}

\* A step in which the running thread goes through schedule(): it yields, or
\* it stops being RUNNING, or it is the idle thread in its thread_block().
DispatchStep ==
    \/ YieldStep
    \/ status'[cur] # "RUNNING"
    \/ pc[cur] = "idle_loop" /\ pc'[cur] = "idle_blocked"

\* ready_list at the moment next_thread_to_run() looks at it: a yielding thread
\* other than idle_thread has put itself at the back.
ListAtSelect ==
    IF YieldStep /\ cur # idle_thread THEN ready_list \o <<cur>> ELSE ready_list

\* C11 as claimed: at every dispatch the thread selected is the idle thread if
\* and only if ready_list is empty at that instant; otherwise the front of
\* ready_list is removed and selected.
C11_IdleSelectionAsClaimed ==
    [][DispatchStep =>
          /\ IsIdle(cur') <=> ListAtSelect = <<>>
          /\ ListAtSelect # <<>> =>
                 cur' = Head(ListAtSelect) /\ ready_list' = Tail(ListAtSelect)]_vars

\* C11, amended: at every dispatch, an empty ready_list selects idle_thread and
\* a non-empty one has its front removed and selected.  Once the idle thread
\* has stored itself in idle_thread the front is never the idle thread, so from
\* then on the idle thread is selected if and only if ready_list is empty;
\* before that it is queued and selected like any other thread.
C11_IdleSelection ==
    [][DispatchStep =>
          IF ListAtSelect = <<>>
          THEN /\ cur' = idle_thread
               /\ IsIdle(cur')
               /\ ready_list' = <<>>
          ELSE /\ cur' = Head(ListAtSelect)
               /\ ready_list' = Tail(ListAtSelect)
               /\ idle_thread # NULL => ~IsIdle(cur')]_vars

\* Every other thread sleeps: the dispatch of the last one to go to sleep found
\* ready_list empty and selected the idle thread.
C11_Witness ==
    /\ cur = idle_thread
    /\ pc[cur] = "idle_blocked"
    /\ ready_list = <<>>
    /\ Len(sleep_list) = 2
    /\ ~in_intr

\* The idle thread has signalled idle_started: its handshake is complete.
HandshakeDone(t) == pc[t] \in {"idle_loop", "idle_blocked", "idle_hlt"}

\* C12: once the idle thread has completed its startup handshake it is never
\* in ready_list, whether it blocked, halts, or was preempted by the timer.
C12_IdleNeverQueued ==
    \A t \in Pages : HandshakeDone(t) => ~InList(ready_list, t)

\* The idle thread, past its handshake, has used up a time slice and was made
\* to yield on return from the timer interrupt: it is READY and not queued.
C12_Witness ==
    /\ idle_thread # NULL
    /\ HandshakeDone(idle_thread)
    /\ preempted[idle_thread]
    /\ status[idle_thread] = "READY"
    /\ cur # idle_thread

\* C13 as claimed: a BLOCKED thread leaves that status only by being made
\* READY; none goes from BLOCKED to RUNNING.
C13_BlockedReleaseAsClaimed ==
    [][\A t \in Pages :
          status[t] = "BLOCKED" => status'[t] \in {"BLOCKED", "READY"}]_vars

\* C13, amended: a BLOCKED thread stays BLOCKED until thread_unblock() makes it
\* READY and appends it to ready_list, which for a sleeper happens only in a
\* thread_wakeup() at or past its deadline; it runs only after that.  The one
\* exception is idle_thread, which a dispatch that finds ready_list empty
\* selects while it is BLOCKED.
C13_BlockedRelease ==
    [][\A t \in Pages :
          status[t] = "BLOCKED" /\ status'[t] # "BLOCKED" =>
              \/ /\ status'[t] = "READY"
                 /\ ~InList(ready_list, t)
                 /\ \E i \in (Len(ready_list) + 1)..Len(ready_list') : ready_list'[i] = t
                 /\ cur' = cur
                 /\ InList(sleep_list, t) => WakeupStep /\ wakeup_tick[t] <= ticks'
              \/ /\ t = idle_thread
                 /\ status'[t] = "RUNNING"
                 /\ cur' = t
                 /\ ready_list = <<>>]_vars

\* A thread that a collaborator had parked has been unblocked, dispatched from
\* ready_list, and is about to return from its blocking call.
C13_Witness ==
    /\ pc[cur] = "block_ret"
    /\ status[cur] = "RUNNING"
    /\ cur \notin waiters
    /\ ~in_intr

\* The kernel state a thread_unblock() has no business with.
UnblockFrame ==
    <<tid, wakeup_tick, tf_eflags, old_level, sleep_list, destruction_req, idle_thread,
      cur, next_tid, tid_lock, idle_started, ticks, thread_ticks, idle_ticks,
      kernel_ticks, intr_level, in_intr, yield_on_return, panic>>

\* The thread a step makes READY by calling thread_unblock() and nothing else:
\* the one a collaborator had parked, or the one thread_create() has set up.
UnblockCallOn(t) ==
    \/ t \in waiters /\ waiters' = waiters \ {t}
    \/ pc[cur] = "create_unblock" /\ pc'[cur] # "create_unblock" /\ newt[cur] = t

\* C14: thread_unblock (t) on a BLOCKED thread appends t to ready_list and
\* makes it READY; the running thread, the other queues, and the interrupt
\* level are as before.  Whenever a thread is made READY, also by sema_up() or
\* thread_wakeup(), the threads already in ready_list keep their places and
\* the running thread stays the same.
C14_UnblockFrame ==
    [][\A t \in Pages :
          /\ UnblockCallOn(t) =>
                /\ status[t] = "BLOCKED"
                /\ ready_list' = Append(ready_list, t)
                /\ status' = [status EXCEPT ![t] = "READY"]
                /\ UNCHANGED UnblockFrame
          /\ status[t] = "BLOCKED" /\ status'[t] = "READY" =>
                /\ IsPrefix(ready_list, ready_list')
                /\ Count(ready_list', t) = 1
                /\ cur' = cur
                /\ status'[cur] = "RUNNING"]_vars

\* A thread a collaborator had parked has just been unblocked by the running
\* thread, which goes on running with interrupts enabled.
C14_Witness ==
    /\ ~in_intr
    /\ intr_level = "ON"
    /\ pc[cur] = "run"
    /\ \E t \in Pages :
          /\ pc[t] = "block_ret"
          /\ status[t] = "READY"
          /\ ready_list = <<t>>
          /\ t \notin waiters

\* C15: thread_unblock (t) on a thread that is not BLOCKED halts the kernel:
\* the step ends in the panic, ready_list and every status are as before, and
\* nothing runs afterwards.
C15_UnblockFatal ==
    [][/\ ~panic
       /\ \A t, w \in Pages : MisuseUnblock(t, w) => panic'
       /\ panic' => /\ ready_list' = ready_list
                    /\ status' = status
                    /\ cur' = cur]_vars

\* The kernel has halted in thread_unblock() while a READY thread is queued,
\* once.
C15_Witness ==
    /\ panic
    /\ intr_level = "OFF"
    /\ \E w \in Pages : status[w] = "READY" /\ Count(ready_list, w) = 1

ExitStep == pc[cur] # "dead" /\ pc'[cur] = "dead"

\* C17: thread_exit() is terminal.  The call leaves the thread DYING and
\* another thread running; from then on the thread executes nothing, is never
\* selected, has no status but DYING until its page is freed, and is in neither
\* ready_list nor sleep_list nor parked by a collaborator.
C17_ExitTerminal ==
    [][/\ ExitStep => status'[cur] = "DYING" /\ cur' # cur
       /\ \A t \in Pages :
             /\ pc[t] = "dead" => pc'[t] = "dead"
             /\ status[t] = "DYING" => status'[t] \in {"DYING", "FREED"}
             /\ status[t] = "FREED" => status'[t] = "FREED"
             /\ pc'[t] = "dead" =>
                   /\ status'[t] \in {"DYING", "FREED"}
                   /\ cur' # t
                   /\ ~InList(ready_list', t)
                   /\ ~InList(sleep_list', t)
                   /\ t \notin waiters'
                   /\ ~preempted'[t]]_vars

\* A thread has exited and waits on destruction_req while another thread runs
\* its own code.
C17_Witness ==
    /\ ~in_intr
    /\ pc[cur] = "run"
    /\ \E t \in Pages :
          /\ pc[t] = "dead"
          /\ status[t] = "DYING"
          /\ destruction_req = <<t>>

\* C18: a thread's page is freed only by the loop in do_schedule(), run by a
\* different thread: a thread that becomes FREED was DYING, was on
\* destruction_req, had finished executing and is not the thread running the
\* step.  destruction_req never holds the running thread and holds only DYING
\* threads, so no RUNNING, READY or BLOCKED thread is ever freed.
C18_DeferredDestruction ==
    [][/\ \A t \in Pages : status[t] # "FREED" /\ status'[t] = "FREED" =>
             /\ status[t] = "DYING"
             /\ InList(destruction_req, t)
             /\ pc[t] = "dead"
             /\ t # cur
             /\ YieldStep \/ ExitStep
       /\ \A i \in 1..Len(destruction_req') :
             /\ destruction_req'[i] # cur'
             /\ status'[destruction_req'[i]] = "DYING"]_vars

\* The page of an exited thread has been freed, and the running thread is on
\* its way out of a thread_yield().
C18_Witness ==
    /\ \E t \in Pages : pc[t] = "dead" /\ status[t] = "FREED"
    /\ ~in_intr
    /\ pc[cur] = "yield_ret" /\ ~preempted[cur]
    /\ \A t \in Pages : status[t] # "DYING"

\* C19: the switch away from a thread that exits puts it on destruction_req,
\* once, unless it is initial_thread; initial_thread is never on
\* destruction_req and its page is never freed.
C19_DyingQueuedOnce ==
    [][/\ ExitStep =>
             destruction_req' = IF cur # initial_thread THEN <<cur>> ELSE <<>>
       /\ \A t \in Pages : Count(destruction_req', t) <= 1
       /\ \A t \in Pages : status'[t] = "DYING" /\ t # initial_thread =>
             Count(destruction_req', t) = 1
       /\ ~InList(destruction_req', initial_thread)
       /\ status'[initial_thread] # "FREED"]_vars

\* initial_thread has exited after another thread: it is DYING and not queued,
\* and its thread_exit() has freed the other thread's page.
C19_Witness ==
    /\ pc[initial_thread] = "dead"
    /\ status[initial_thread] = "DYING"
    /\ destruction_req = <<>>
    /\ \E t \in Pages : status[t] = "FREED"

\* The running thread blocks: thread_block() from a collaborator, from
\* thread_sleep(), from sema_down(), or from idle().
BlockStep ==
    /\ ~YieldStep
    /\ ~ExitStep
    /\ \/ status[cur] = "RUNNING" /\ status'[cur] = "BLOCKED"
       \/ pc[cur] = "idle_loop" /\ pc'[cur] = "idle_blocked"

CreateReturnStep == pc[cur] = "create_unblock" /\ pc'[cur] # "create_unblock"

\* C21: a thread_create() that got a page returns the tid of the new thread,
\* which is no other thread's and is not TID_ERROR; on return the new thread is
\* READY at the back of ready_list, behind the threads that were queued, and
\* the caller is still the running thread.
C21_CreateSuccess ==
    [][CreateReturnStep =>
          LET n == newt[cur]
          IN /\ returned' = tid'[n]
             /\ returned' > 0
             /\ returned' # TID_ERROR
             /\ \A p \in Pages \ {n} : tid'[p] # returned'
             /\ status[n] = "BLOCKED"
             /\ status' = [status EXCEPT ![n] = "READY"]
             /\ ready_list' = Append(ready_list, n)
             /\ cur' = cur
             /\ status'[cur] = "RUNNING"
             /\ sleep_list' = sleep_list
             /\ destruction_req' = destruction_req]_vars

\* thread_create() has just returned the tid of the thread at the back of
\* ready_list, which was queued behind another thread.
C21_Witness ==
    /\ ~in_intr
    /\ pc[cur] = "run"
    /\ Len(ready_list) >= 2
    /\ LET n == ready_list[Len(ready_list)]
       IN /\ returned = tid[n]
          /\ status[n] = "READY"
          /\ pc[n] = "run"

\* thread_create() returns TID_ERROR.
CreateFailStep == returned' = TID_ERROR /\ returned # TID_ERROR

\* C22: a thread_create() that gets no page returns TID_ERROR and changes
\* nothing: the three queues, every status, next_tid and the rest of the
\* kernel's state are as before, the caller goes on from where it called, and
\* the kernel has not halted.
C22_CreateFailure ==
    [][CreateFailStep =>
          /\ ready_list' = ready_list
          /\ sleep_list' = sleep_list
          /\ destruction_req' = destruction_req
          /\ status' = status
          /\ next_tid' = next_tid
          /\ UNCHANGED <<kvars, lvars>>
          /\ ~panic'
          /\ pc'[cur'] = "run"]_vars

\* thread_create() has returned TID_ERROR to the running thread while other
\* threads are queued.
C22_Witness ==
    /\ returned = TID_ERROR
    /\ ~panic
    /\ ~in_intr
    /\ pc[cur] = "run"
    /\ Len(ready_list) >= 2
    /\ next_tid = 5

\* C23: tids are unique and increasing.  A thread's tid, once thread_create()
\* has it from allocate_tid(), never changes; each tid handed out is larger
\* than every tid handed out before, so no two threads, running or exited,
\* share one; main has tid 1; next_tid never decreases and is above every
\* tid in use.
C23_TidsUnique ==
    [][/\ \A p, q \in Pages :
             p # q /\ tid'[p] # 0 /\ tid'[q] # 0 => tid'[p] # tid'[q]
       /\ \A p \in Pages : tid[p] # 0 => tid'[p] = tid[p]
       /\ \A p \in Pages : tid[p] = 0 /\ tid'[p] # 0 =>
             /\ tid'[p] = next_tid
             /\ \A q \in Pages : tid[q] < tid'[p]
       /\ next_tid' >= next_tid
       /\ \A p \in Pages : tid'[p] <= next_tid'
       /\ tid'[initial_thread] = 1
       /\ CreateReturnStep => tid'[newt[cur]] < next_tid']_vars

\* A thread has blocked on tid_lock in its own thread_create() while the
\* holder was preempted between the load and the store of next_tid; the holder
\* has been dispatched again and is about to resume.
C23_Witness ==
    /\ tid_lock.holder = cur
    /\ pc[cur] = "create_incr"
    /\ preempted[cur]
    /\ \E w \in Pages : pc[w] = "create_wait" /\ status[w] = "BLOCKED"

\* C24: the time slice.  The timer interrupt counts one more tick for the
\* running thread and asks for a yield on return exactly when that makes
\* TIME_SLICE ticks since the last dispatch; every dispatch, the one of that
\* yield included, puts the count back to 0, and nothing else changes it.  So
\* the count never exceeds TIME_SLICE and is below it whenever a thread
\* executes.
C24_TimeSlice ==
    [][/\ WakeupStep =>
             /\ thread_ticks' = thread_ticks + 1
             /\ yield_on_return' <=> thread_ticks' = TIME_SLICE
       /\ DispatchStep => thread_ticks' = 0
       /\ ~WakeupStep /\ ~DispatchStep =>
             thread_ticks' = thread_ticks /\ yield_on_return' = yield_on_return
       /\ thread_ticks' <= TIME_SLICE
       /\ ~in_intr' => thread_ticks' < TIME_SLICE /\ ~yield_on_return']_vars

\* A thread has used up a time slice that began at a dispatch after the first
\* tick: the handler has asked for a yield on return.
C24_Witness ==
    /\ in_intr
    /\ yield_on_return
    /\ thread_ticks = TIME_SLICE
    /\ ticks > TIME_SLICE
    /\ ticks % TIME_SLICE # 0

\* C25: no dispatch inside the interrupt handler.  timer_interrupt(), with
\* thread_tick() and thread_wakeup(), leaves the thread it interrupted RUNNING
\* and current; while the handler is in progress interrupts are off and the only
\* step is its return; the running thread changes only outside interrupt
\* context, and a yield that thread_tick() asked for happens at that return.
C25_NoDispatchInInterrupt ==
    [][/\ WakeupStep => cur' = cur /\ status'[cur] = "RUNNING" /\ intr_level' = "OFF"
       /\ in_intr => ~in_intr'
       /\ in_intr' => cur' = cur /\ status'[cur'] = "RUNNING"
       /\ cur' # cur => ~in_intr'
       /\ in_intr /\ yield_on_return => YieldStep /\ thread_ticks' = 0
       /\ in_intr /\ ~yield_on_return => cur' = cur /\ ready_list' = ready_list]_vars

\* thread_tick() has asked for a yield and thread_wakeup() has queued a
\* sleeper, and the interrupted thread is still the running one.
C25_Witness ==
    /\ in_intr
    /\ yield_on_return
    /\ status[cur] = "RUNNING"
    /\ cur # idle_thread
    /\ woken # <<>>
    /\ InList(ready_list, woken[1][1])

\* What the scheduler decides: the running thread, the three queues, every
\* thread's status, and whether the kernel has halted.
Decisions(s) ==
    <<s.cur, s.ready_list, s.sleep_list, s.destruction_req, s.status, s.panic>>

\* The kernel's state with the priorities replaced by alt.
WithPriorities(alt) == [K EXCEPT !.priority = alt]

\* Other priorities the threads could have: all the lowest, all the highest,
\* and the ones they have turned upside down, which reverses the order of any
\* two threads of different priority.
AltPriorities ==
    {[t \in Pages |-> PRI_MIN], [t \in Pages |-> PRI_MAX],
     [t \in Pages |-> PRI_MAX - priority[t]]}

\* C26: priority is inert.  In every reachable state, each operation of the
\* scheduler -- yield, block, unblock, sleep, exit, a timer tick, the return
\* from an interrupt, set_priority, and the initialisation of a created
\* thread -- decides the same from the state with the threads' priorities
\* levelled or reversed as from the state itself.  Two executions that differ
\* only in priorities therefore agree on the running thread and on the queues
\* after every operation.
C26_PriorityInert ==
    \A alt \in AltPriorities :
       LET A == WithPriorities(alt)
       IN /\ Decisions(thread_yield(A)) = Decisions(thread_yield(K))
          /\ Decisions(collab_block(A)) = Decisions(collab_block(K))
          /\ Decisions(thread_exit(A)) = Decisions(thread_exit(K))
          /\ Decisions(timer_interrupt(A)) = Decisions(timer_interrupt(K))
          /\ Decisions(intr_return(A)) = Decisions(intr_return(K))
          /\ \A tk \in SleepArgs :
                Decisions(thread_sleep(A, ticks + tk)) = Decisions(thread_sleep(K, ticks + tk))
          /\ \A t \in Pages :
                Decisions(thread_unblock(A, t)) = Decisions(thread_unblock(K, t))
          /\ \A new \in PriArgs :
                /\ Decisions(thread_set_priority(A, new)) = Decisions(K)
                /\ \A p \in FreshPages(K) :
                      Decisions(init_thread(A, p, new)) = Decisions(init_thread(K, p, new))

\* A thread of the highest priority has yielded to one of the lowest and
\* waits in ready_list while that one runs.
C26_Witness ==
    /\ ~in_intr
    /\ pc[cur] = "yield_ret"
    /\ priority[cur] = PRI_MIN
    /\ cur # idle_thread
    /\ Len(ready_list) = 1
    /\ priority[ready_list[1]] = PRI_MAX
    /\ pc[ready_list[1]] = "yield_ret"

\* C27 as claimed: an entry point called in an interrupt state it does not
\* accept halts the kernel with the three queues, every status and every
\* wakeup_tick as they were.
C27_HaltBeforeChangeAsClaimed ==
    [][~panic /\ panic' =>
          /\ ready_list' = ready_list
          /\ sleep_list' = sleep_list
          /\ destruction_req' = destruction_req
          /\ status' = status
          /\ wakeup_tick' = wakeup_tick]_vars

\* A dispatch selects the idle thread, which has been through its handshake.
IdleSelected == DispatchStep /\ cur' = idle_thread /\ HandshakeDone(cur')

\* C28 as claimed: whenever a dispatch selects the idle thread, the idle thread
\* is about to mask interrupts and block, not to wait for an interrupt.
C28_IdleBlocksFirstAsClaimed ==
    [][IdleSelected => pc'[cur'] = "idle_loop"]_vars

\* C28: the idle thread's loop.  It masks interrupts and blocks; a dispatch
\* that selects it resumes it after that thread_block(), unless it had been
\* preempted, and what it does then is  sti; hlt : it enables interrupts and
\* waits, still RUNNING, and nothing but an interrupt ends the wait; after the
\* interrupt it masks interrupts and blocks again, without another wait.
C28_IdleLoop ==
    [][/\ IdleSelected =>
             \/ pc'[cur'] = "idle_blocked" /\ ~preempted'[cur'] /\ intr_level' = "OFF"
             \/ pc'[cur'] = "idle_loop" /\ preempted'[cur']
       /\ \A t \in Pages :
             /\ pc[t] = "idle_loop" /\ pc'[t] # pc[t] =>
                   /\ pc'[t] = "idle_blocked"
                   /\ cur = t /\ ~in_intr
                   /\ DispatchStep
                   /\ IF ready_list = <<>>
                      THEN cur' = t /\ status'[t] = "RUNNING" /\ intr_level' = "OFF"
                      ELSE cur' = Head(ready_list) /\ status'[t] = "BLOCKED"
             /\ pc[t] = "idle_blocked" /\ pc'[t] # pc[t] =>
                   /\ pc'[t] = "idle_hlt"
                   /\ cur = t /\ cur' = t
                   /\ status'[t] = "RUNNING"
                   /\ intr_level = "OFF" /\ intr_level' = "ON"
             /\ pc[t] = "idle_hlt" /\ pc'[t] # pc[t] =>
                   /\ pc'[t] = "idle_loop"
                   /\ WakeupStep
                   /\ cur = t
             /\ pc[t] = "idle_hlt" => cur = t /\ ~preempted[t]]_vars

\* The idle thread was selected because everybody sleeps, and waits in hlt
\* with interrupts enabled.
C28_Witness ==
    /\ idle_thread # NULL
    /\ cur = idle_thread
    /\ pc[cur] = "idle_hlt"
    /\ intr_level = "ON"
    /\ ~in_intr
    /\ ready_list = <<>>
    /\ Len(sleep_list) = 2

\* main is still inside thread_start(): in its own code or in the
\* thread_create() of the idle thread.
InThreadStart ==
    \/ pc[initial_thread] \in {"ts_create", "ts_enable", "ts_down", "ts_down_wait"}
    \/ newt[initial_thread] # NULL /\ pc[newt[initial_thread]] = "idle_begin"

\* The threads that run idle().
IdleThreads == {t \in Pages : IsIdle(t)}

\* C29: the start-up handshake.  thread_start() creates one thread that runs
\* idle() and nobody creates another; when thread_start() returns, that
\* thread has run, has stored itself in idle_thread and has done its sema_up
\* on idle_started; idle_thread, once set, is that thread for good.
C29_IdleHandshake ==
    [][/\ Cardinality(IdleThreads') <= 1
       /\ IdleThreads # {} => IdleThreads' = IdleThreads
       /\ idle_thread # NULL => idle_thread' = idle_thread
       /\ idle_thread' # NULL => IdleThreads' = {idle_thread'}
       /\ ~InThreadStart' =>
             /\ idle_thread' # NULL
             /\ HandshakeDone(idle_thread')
             /\ idle_started'.value = 0
             /\ idle_started'.waiters = <<>>]_vars

\* thread_start() has just returned to main: the idle thread has registered,
\* signalled and blocked, and no tick has passed.
C29_Witness ==
    /\ cur = initial_thread
    /\ pc[cur] = "run"
    /\ ~in_intr
    /\ ticks = 0
    /\ idle_thread # NULL
    /\ status[idle_thread] = "BLOCKED"
    /\ pc[idle_thread] = "idle_blocked"
    /\ next_tid = tid[idle_thread] + 1

\* ---------------------------------------------------------------- C30
\* C30 as stated: the tick counter is read or modified only with interrupts
\* masked, in the handler's increment, in timer_ticks() and in the calibration
\* loop alike.  too_many_loops() reads ticks with interrupts enabled.
C30_TicksMaskedAsClaimed == ticks_level # "ON"

\* a step of timer_ticks(), called by timer_sleep() and by timer_elapsed()
TimerTicksStep(t) ==
    \/ pc[t] = "run" /\ pc'[t] = "sleep_check"
    \/ pc[t] = "sleep_check" /\ pc'[t] \in {"sleep_call", "run"}

\* a step of too_many_loops() that reads ticks
CalibrationStep(t) ==
    \/ pc[t] = "run" /\ pc'[t] = "cal_wait"
    \/ pc[t] = "cal_wait" /\ pc'[t] = "cal_busy"
    \/ pc[t] = "cal_busy" /\ pc'[t] = "run"

\* C30: the tick counter changes only by the handler's increment, by one and
\* with interrupts masked, and timer_ticks() reads it with interrupts masked;
\* the calibration loop reads it as it is, with interrupts enabled.
C30_TicksAccess ==
    [][ /\ ticks' # ticks =>
            /\ ticks' = ticks + 1
            /\ in_intr' /\ intr_level' = "OFF"
            /\ ticks_level' = "OFF"
        /\ \A t \in Pages : TimerTicksStep(t) =>
            /\ ticks_level' = "OFF"
            /\ ticks' = ticks /\ intr_level' = intr_level
        /\ \A t \in Pages : CalibrationStep(t) =>
            /\ ticks_level' = "ON"
            /\ ticks' = ticks
      ]_vars

\* too_many_loops() has seen a tick come in and has read ticks again, in a
\* system where timer_ticks() has been called as well
C30_Witness ==
    /\ pc[initial_thread] = "cal_busy"
    /\ ticks_level = "ON"
    /\ sl_start[initial_thread] = ticks
    /\ ticks > 0
    /\ \E t \in Pages : pc[t] = "sleep_ret"


\* ---------------------------------------------------------------- C31
\* t calls thread_yield() or thread_sleep(): by itself, or (thread_yield()) at
\* the end of the interrupt that preempts it
SuspendingCall(t) ==
    /\ ~panic'
    /\ \/ pc[t] = "run" /\ pc'[t] = "yield_ret"
       \/ pc[t] = "sleep_call" /\ pc'[t] = "sleep_ret"
       \/ ~preempted[t] /\ preempted'[t]

\* t is suspended inside thread_yield() or thread_sleep()
SuspendedInCall(t) ==
    \/ pc[t] \in {"yield_ret", "sleep_ret"} /\ pc'[t] = pc[t] /\ preempted'[t] = preempted[t]
    \/ preempted[t] /\ preempted'[t]

\* C31: interrupt state is restored.  thread_yield() and thread_sleep() keep
\* the interrupt level of their call while the thread is switched out, and
\* return with that level once the thread has been dispatched again (the
\* thread_yield() at the end of an interrupt was called with interrupts off and
\* returns with them off; the iret after it enables them).  thread_unblock()
\* and thread_wakeup() return with the level they were called with, whether
\* that is on or off.
C31_LevelRestored ==
    [][ /\ \A t \in Pages :
            /\ SuspendingCall(t) => old_level'[t] = intr_level
            /\ SuspendedInCall(t) => old_level'[t] = old_level[t]
            /\ pc[t] \in {"yield_ret", "sleep_ret"} /\ pc'[t] = "run" =>
                   intr_level' = old_level[t]
            /\ preempted[t] /\ ~preempted'[t] =>
                   old_level[t] = "OFF" /\ intr_level' = "ON"
        /\ \A w \in Pages :
               status[w] = "BLOCKED" /\ ~panic =>
                   thread_unblock(K, w).intr_level = intr_level
        /\ \A tk \in 0..(ticks + 1) :
               thread_current_ok(K) /\ ~panic =>
                   thread_wakeup(K, tk).intr_level = intr_level
        /\ ~in_intr /\ in_intr' => intr_level' = "OFF"
      ]_vars

\* A thread that slept has been woken and dispatched again: it is about to
\* return from thread_sleep(), which it called with interrupts enabled.
C31_Witness ==
    /\ ~panic /\ ~in_intr
    /\ pc[cur] = "sleep_ret"
    /\ status[cur] = "RUNNING"
    /\ intr_level = "OFF"
    /\ old_level[cur] = "ON"
    /\ \E t \in Pages : preempted[t] /\ old_level[t] = "OFF"


\* ---------------------------------------------------------------- C32
\* C32 as stated: every timer_sleep (n) with n > 0 goes to sleep.
C32_PositiveSleepsAsClaimed ==
    [][\A t \in Pages :
          pc[t] = "sleep_check" /\ sl_ticks[t] > 0 /\ pc'[t] # pc[t] =>
              pc'[t] = "sleep_call"]_vars

\* C32: timer_sleep (n) reads the tick counter at the call: start.  When it
\* then finds that n ticks have passed since start -- always so for n <= 0, and
\* for n > 0 when timer interrupts came in since the read -- it returns at once:
\* nothing of the kernel's state changes, so the caller is not blocked, is not
\* queued and no dispatch is asked for.  Otherwise n > 0 and it calls
\* thread_sleep (start + n): the caller is BLOCKED in sleep_list with that
\* deadline, and another thread runs.
C32_TimerSleep ==
    [][\A t \in Pages :
          /\ pc[t] = "run" /\ pc'[t] = "sleep_check" =>
                 sl_start'[t] = ticks /\ UNCHANGED kvars
          /\ pc[t] = "sleep_check" /\ pc'[t] = "run" =>
                 /\ ticks - sl_start[t] >= sl_ticks[t]
                 /\ UNCHANGED kvars
          /\ pc[t] = "sleep_check" /\ sl_ticks[t] <= 0 /\ pc'[t] # pc[t] => pc'[t] = "run"
          /\ pc[t] = "sleep_check" /\ pc'[t] = "sleep_call" =>
                 /\ sl_ticks[t] > 0
                 /\ ticks - sl_start[t] < sl_ticks[t]
                 /\ UNCHANGED <<kvars, sl_start, sl_ticks>>
          /\ pc[t] = "sleep_call" /\ pc'[t] = "sleep_ret" /\ ~panic' =>
                 /\ wakeup_tick'[t] = sl_start[t] + sl_ticks[t]
                 /\ Count(sleep_list', t) = 1
                 /\ status'[t] = "BLOCKED"
                 /\ cur = t /\ cur' # t
      ]_vars

\* A thread sleeps with the deadline start + n of a timer_sleep (n) whose start
\* is earlier than the tick at which it went to sleep; another thread has
\* called timer_sleep() with an argument <= 0.
C32_Witness ==
    /\ \E t \in Pages :
          /\ InList(sleep_list, t)
          /\ pc[t] = "sleep_ret"
          /\ wakeup_tick[t] = ticks
          /\ ticks > 0
    /\ \E u \in Pages : pc[u] = "sleep_check" /\ sl_ticks[u] <= 0


\* ---------------------------------------------------------------- C33
\* C33: when timer_interrupt() has run, with the tick counter incremented to
\* ticks and thread_wakeup (ticks) done, every thread still in sleep_list has a
\* deadline after ticks, also when threads went to sleep with a deadline that
\* had passed already.
C33_NoDueSleeperLeft ==
    in_intr /\ ~panic =>
        \A i \in 1..Len(sleep_list) : wakeup_tick[sleep_list[i]] > ticks

\* The interrupt has woken a thread whose deadline was due before the previous
\* tick already -- it went to sleep with its deadline in the past -- and
\* another thread sleeps on.
C33_Witness ==
    /\ in_intr /\ ~panic
    /\ \E i \in 1..Len(woken) : woken[i][2] < ticks - 1
    /\ sleep_list # <<>>


PosIn(l, e) == CHOOSE i \in 1..Len(l) : l[i] = e
Before(l, a, b) == InList(l, a) /\ InList(l, b) /\ PosIn(l, a) < PosIn(l, b)

\* The interrupt ends with the thread_yield() its handler asked for.
PreemptStep == in_intr /\ yield_on_return /\ ~in_intr' /\ ~panic'

\* C36: when the time slice expires at the tick that makes sleepers due, the
\* handler's thread_wakeup() has queued them before the thread_yield() at the
\* end of the interrupt queues the preempted thread: each thread woken at that
\* tick is dispatched by that yield or is in ready_list ahead of the preempted
\* thread, which is at the back.  From then on a thread that is behind another
\* in ready_list is not dispatched, and stays behind it, as long as the other
\* is queued; so the woken threads run before the preempted one runs again.
C36_WokenBeforePreempted ==
    [][ /\ PreemptStep /\ woken # <<>> =>
            /\ \A i \in 1..Len(woken) :
                   \/ cur' = woken[i][1]
                   \/ /\ InList(ready_list', woken[i][1])
                      /\ cur # idle_thread => Before(ready_list', woken[i][1], cur)
            /\ cur' # cur
            /\ cur # idle_thread => ready_list'[Len(ready_list')] = cur
        /\ \A a, b \in Pages :
               Before(ready_list, a, b) =>
                   /\ cur' # b
                   /\ InList(ready_list', b)
                   /\ InList(ready_list', a) => Before(ready_list', a, b)
      ]_vars

\* The running thread has used up its time slice at the tick that woke a
\* sleeper: the sleeper now runs and the preempted thread is queued.
C36_Witness ==
    /\ ~in_intr /\ ~panic
    /\ pc[cur] = "sleep_ret"
    /\ thread_ticks = 0
    /\ ticks = ATick + ASleep
    /\ IsA(cur)
    /\ \E p \in Pages : preempted[p] /\ InList(ready_list, p) /\ p # idle_thread


\* ---------------------------------------------------------------- C37
\* C37: tick accounting.  Every timer interrupt adds one to ticks and to
\* exactly one of idle_ticks, user_ticks and kernel_ticks: idle_ticks when and
\* only when the running thread is idle_thread, else user_ticks when the running
\* thread has an address space, else kernel_ticks.  No other step changes any of
\* the four, and the three statistics add up to ticks.
C37_TickAccounting ==
    [][ /\ TimerInterruptStep =>
            /\ ticks' = ticks + 1
            /\ <<idle_ticks', user_ticks', kernel_ticks'>> \in
                  {<<idle_ticks + 1, user_ticks, kernel_ticks>>,
                   <<idle_ticks, user_ticks + 1, kernel_ticks>>,
                   <<idle_ticks, user_ticks, kernel_ticks + 1>>}
            /\ idle_ticks' = idle_ticks + 1 <=> cur = idle_thread
            /\ user_ticks' = user_ticks + 1 <=> cur # idle_thread /\ pml4[cur] # NULL
        /\ ~TimerInterruptStep =>
            UNCHANGED <<ticks, idle_ticks, user_ticks, kernel_ticks>>
        /\ idle_ticks' + kernel_ticks' + user_ticks' = ticks'
      ]_vars

\* Ticks have been counted for the idle thread, for a kernel thread and for a
\* user program.
C37_Witness ==
    /\ idle_ticks > 0 /\ kernel_ticks > 0 /\ user_ticks > 0
    /\ ~in_intr /\ ~panic


\* ---------------------------------------------------------------- C38
\* A state that code running with interrupts enabled can observe: no handler is
\* running and the interrupt flag is on.
ObservableState == ~panic /\ ~in_intr /\ intr_level = "ON"

QueuesHaveStatus ==
    /\ \A i \in 1..Len(ready_list) : status[ready_list[i]] = "READY"
    /\ \A i \in 1..Len(sleep_list) : status[sleep_list[i]] = "BLOCKED"
    /\ \A i \in 1..Len(destruction_req) : status[destruction_req[i]] = "DYING"

\* C38 as stated: in every state observable with interrupts enabled the queues
\* hold threads of the matching status, and every READY thread is on ready_list.
C38_StatusAsClaimed ==
    ObservableState =>
        /\ QueuesHaveStatus
        /\ \A t \in Pages : status[t] = "READY" => InList(ready_list, t)


\* C38: in every state observable with interrupts enabled the queues hold
\* threads of the matching status, and every READY thread other than
\* idle_thread is on ready_list.  thread_yield() does not queue idle_thread, so
\* a preempted idle thread is READY and on no list.
C38_StatusAgreesWithQueues ==
    ObservableState =>
        /\ QueuesHaveStatus
        /\ \A t \in Pages :
              status[t] = "READY" /\ t # idle_thread => InList(ready_list, t)

\* A thread runs with interrupts enabled while another sleeps and the preempted
\* idle thread is READY.
C38_Witness ==
    /\ ObservableState
    /\ sleep_list # <<>>
    /\ idle_thread # NULL /\ status[idle_thread] = "READY"


\* ---------------------------------------------------------------- C39
\* The idle thread is running after an interrupt in which thread_wakeup() put
\* threads on ready_list.
IdleHasWork ==
    /\ ~panic /\ ~in_intr
    /\ idle_thread # NULL /\ cur = idle_thread /\ ~preempted[cur]
    /\ pc[cur] = "idle_loop"
    /\ ready_list # <<>>

====
